---- MODULE Spec2Model ----
(***************************************************************************)
(* govydoc: reflection walk (objectMapper.Map), children paths, godoc      *)
(* correlation (Parser.Parse), rule-fact extension, documentation merge    *)
(* and post-processing, as one run of Generate over a bounded universe of  *)
(* Go types (Spec); Parse calls running at the same time on one Parser     *)
(* (SpecParsers); FindModuleRoot over a bounded filesystem (SpecFind);     *)
(* NewParser over a bounded set of loaded packages (SpecLoad).             *)
(*                                                                         *)
(* Strings are sequences of tokens.  A path is built from the tokens "$",  *)
(* ".", "[*]", "~", "*" and member names; a documentation text from word   *)
(* tokens, " ", "\n", "Deprecated:" and "ENUM".  Concatenation, prefix     *)
(* cutting and substring search act on the token sequences.                *)
(***************************************************************************)
EXTENDS Integers, Sequences, FiniteSets, TLC

VARIABLES
    decls,        \* the declarations of the loaded program: what reflect and the
                  \* parser's package index (Parser.pkgs) tell about each named type
    typ,          \* reflect.TypeOf(*new(T)): the root type given to Generate
    filterPaths,  \* options.filterPaths, collected by WithFilteredPaths
    plan,         \* the govy.ValidatorPlan govy.Plan returns (or its failure)
    pc,           \* position of Generate
    mapCalls,     \* objectMapper.Map calls not yet entered, next call first
    objectDoc,    \* the ObjectDoc under construction (Name, Doc, Properties)
    parseStack,   \* frames of Parser.parse inside parseStructFields
    docs,         \* the Docs map m of Parser.Parse
    parseErr,     \* the error p.parse returned to Parse, "" for nil
    goDoc,        \* what Parser.Parse returned: [docs, err]
    result,       \* what Generate returned: [doc, err]
    commentParser,\* Parser.pkgs[path].commentParser: whether it is set (not nil)
    calls,        \* Parse calls running on one Parser at the same time: for each
                  \* its position, the lookups it has still to make and its error
    cwd,          \* the working directory, as its depth below the filesystem root
    goMod,        \* the filesystem: what os.Stat finds at go.mod in each directory
    dir,          \* the local dir of FindModuleRoot
    moduleRoot,   \* FindModuleRoot: its position and what it returned
    loaded,       \* what packages.Load returned: the root packages, the imports
                  \* of each package, its Errors and the state of its Module
    toVisit,      \* packages.Visit: the packages still to visit, next first
    seen,         \* packages.Visit: the packages visited
    errs,         \* checkForPackageErrors: the errors collected
    newParser     \* NewParser: its position and what it returned

generateVars == <<decls, typ, filterPaths, plan, pc, mapCalls, objectDoc, parseStack, docs, parseErr, goDoc, result>>

parsersVars == <<commentParser, calls>>

findVars == <<cwd, goMod, dir, moduleRoot>>

loadVars == <<loaded, toVisit, seen, errs, newParser>>

vars == <<generateVars, parsersVars, findVars, loadVars>>

(***************************************************************************)
(* Bounds.                                                                 *)
(***************************************************************************)
\* Depth of nested calls at which the goroutine stack is exhausted.
MaxDepth == 6

\* Most rule facts of a validation plan.
MaxFacts == 2

\* Most paths a caller gives to WithFilteredPaths.
MaxFilterPaths == 1

(***************************************************************************)
(* Strings.                                                                *)
(***************************************************************************)
EmptyStr == << >>

SP == " "

NL == "\n"

DEP == "Deprecated:"

ENUM == "ENUM"

HasPrefix(s, prefix) ==
    /\ Len(prefix) <= Len(s)
    /\ SubSeq(s, 1, Len(prefix)) = prefix

\* strings.CutPrefix: the text after the prefix, and whether it was there.
CutPrefix(s, prefix) ==
    IF HasPrefix(s, prefix)
    THEN [after |-> SubSeq(s, Len(prefix) + 1, Len(s)), found |-> TRUE]
    ELSE [after |-> s, found |-> FALSE]

\* strings.Contains for a one-token substring.
Contains(s, tok) == \E i \in 1..Len(s) : s[i] = tok

Range(s) == {s[i] : i \in 1..Len(s)}

(***************************************************************************)
(* The universe of Go types (reflect.Type values and their declarations).  *)
(***************************************************************************)
Builtin(n) == [k |-> "builtin", name |-> n, args |-> << >>]

Named(n) == [k |-> "named", name |-> n, args |-> << >>]

Ptr(t) == [k |-> "ptr", name |-> "", args |-> <<t>>]

Slice(t) == [k |-> "slice", name |-> "", args |-> <<t>>]

MapOf(kt, vt) == [k |-> "map", name |-> "", args |-> <<kt, vt>>]

StringT == Builtin("string")

IntT == Builtin("int")

\* One struct field as reflect and go/ast see it.  JSON is the name part of
\* the json tag ("" when there is no tag or the name is empty), AST is the
\* key under which buildASTFieldMap files the declaration field ("" when it
\* files none), Doc the doc comment of the declaration field.
Field(name, json, exported, anonymous, type, ast, doc) ==
    [Name |-> name, JSON |-> json, Exported |-> exported, Anonymous |-> anonymous,
     Type |-> type, AST |-> ast, Doc |-> doc]

\* A plain exported, tagged field.
Tagged(name, json, type, doc) == Field(name, json, TRUE, FALSE, type, name, doc)

PkgP == <<"p">>

\* A type declaration: package path, reflect kind, element types of a named
\* slice or map, struct fields, doc comment, whether the type-checker scope
\* of the package holds the name, and whether the declaration body is a
\* struct literal.
PkgQ == <<"q">>

PkgR == <<"r">>

DeclIn(pkg, kind, under, fields, doc, declared, astStruct) ==
    [pkg |-> pkg, kind |-> kind, under |-> under, fields |-> fields, doc |-> doc,
     declared |-> declared, astStruct |-> astStruct]

Decl(kind, under, fields, doc, declared, astStruct) ==
    DeclIn(PkgP, kind, under, fields, doc, declared, astStruct)


StructDecl(fields, doc) == Decl("struct", << >>, fields, doc, TRUE, TRUE)

Universe ==
    [n \in {"AB", "Name", "Names", "Inner", "Outer", "NodeP", "NodeS", "NodeM",
            "Dup", "Emb", "Org", "Old", "Local", "Alias", "Empty", "Holder", "Ext",
            "Refs", "Quiet", "Loop", "LoopS", "Ping", "Pong", "Base", "EmbQ", "Mode"} |->
      CASE n = "AB" ->
             \* type AB struct { A string `json:"a"`; B int `json:"b"` }
             StructDecl(<<Tagged("A", "a", StringT, <<"w">>),
                          Tagged("B", "b", IntT, << >>)>>, <<"w">>)
        [] n = "Name" ->
             \* // w\n ENUM(w)
             \* type Name string
             Decl("string", << >>, << >>, <<"w", NL, ENUM, "w">>, TRUE, FALSE)
        [] n = "Names" ->
             \* type Names []Name
             Decl("slice", <<Named("Name")>>, << >>, <<"w">>, TRUE, FALSE)
        [] n = "Inner" ->
             \* // w\n\n Deprecated: w
             \* type Inner struct { Key string `json:"key"` }
             StructDecl(<<Tagged("Key", "key", StringT, <<"w">>)>>,
                        <<"w", NL, NL, DEP, SP, "w">>)
        [] n = "Outer" ->
             StructDecl(<<Tagged("Secret", "secret", Named("Inner"), <<DEP, SP, "v">>),
                          Tagged("Items", "items", Slice(Named("Inner")), <<"w">>),
                          Tagged("Data", "data", MapOf(Named("Name"), Named("Inner")), << >>),
                          Tagged("Ptr", "ptr", Ptr(Named("AB")), << >>),
                          Tagged("NoTag", "", IntT, <<"w">>),
                          Field("hidden", "hidden", FALSE, FALSE, StringT, "hidden", << >>),
                          Tagged("Skip", "-", Named("Empty"), << >>)>>, <<"w">>)
        [] n = "NodeP" ->
             \* type NodeP struct { Val string `json:"val"`; Next *NodeP `json:"next"` }
             StructDecl(<<Tagged("Val", "val", StringT, << >>),
                          Tagged("Next", "next", Ptr(Named("NodeP")), << >>)>>, <<"w">>)
        [] n = "NodeS" ->
             \* type NodeS struct { Kids []NodeS `json:"kids"` }
             StructDecl(<<Tagged("Kids", "kids", Slice(Named("NodeS")), << >>)>>, <<"w">>)
        [] n = "NodeM" ->
             \* type NodeM struct { Adj map[string]NodeM `json:"adj"` }
             StructDecl(<<Tagged("Adj", "adj", MapOf(StringT, Named("NodeM")), << >>)>>, <<"w">>)
        [] n = "Dup" ->
             \* type Dup struct { X string `json:"x"`; Y int `json:"x"` }
             StructDecl(<<Tagged("X", "x", StringT, << >>),
                          Tagged("Y", "x", IntT, << >>)>>, <<"w">>)
        [] n = "Emb" ->
             \* type Emb struct { Inner; Name Name `json:"name"` }
             StructDecl(<<Field("Inner", "", TRUE, TRUE, Named("Inner"), "Inner", <<"w">>),
                          Tagged("Name", "name", Named("Name"), << >>)>>, <<"w">>)
        [] n = "Org" ->
             StructDecl(<<Tagged("Organization", "organization", StringT, << >>),
                          Tagged("Title", "title", Named("Names"), <<"w">>),
                          Tagged("A", "a", StringT, <<"w", SP, NL>>),
                          Tagged("Old", "old", Named("Old"), << >>)>>, << >>)
        [] n = "Old" ->
             \* // Deprecated:
             \* // w
             \* type Old string
             Decl("string", << >>, << >>, <<DEP, NL, "w">>, TRUE, FALSE)
        [] n = "Local" ->
             \* declared inside a function: absent from the package scope
             Decl("struct", << >>, <<Tagged("A", "a", StringT, << >>)>>, <<"w">>, FALSE, TRUE)
        [] n = "Alias" ->
             \* type Alias AB: a struct whose declaration body is no struct literal
             Decl("struct", << >>, <<Tagged("A", "a", StringT, <<"w">>),
                                     Tagged("B", "b", IntT, << >>)>>, <<"w">>, TRUE, FALSE)
        [] n = "Empty" ->
             \* type Empty struct{}, without a doc comment
             StructDecl(<< >>, << >>)
        [] n = "Holder" ->
             \* type Holder struct { E Empty `json:"e"`; L Local `json:"l"` }
             StructDecl(<<Tagged("E", "e", Named("Empty"), << >>),
                          Tagged("L", "l", Named("Local"), << >>)>>, <<"w">>)
        [] n = "Ext" ->
             \* a struct of a package the parser has not loaded
             DeclIn(PkgQ, "struct", << >>, <<Tagged("A", "a", StringT, << >>)>>, <<"w">>,
                    TRUE, TRUE)
        [] n = "Refs" ->
             \* type Refs struct {
             \*     List []*AB   `json:"list"`
             \*     PP   **AB    `json:"pp"`
             \*     Grid []Names `json:"grid"`
             \* }
             StructDecl(<<Tagged("List", "list", Slice(Ptr(Named("AB"))), << >>),
                          Tagged("PP", "pp", Ptr(Ptr(Named("AB"))), << >>),
                          Tagged("Grid", "grid", Slice(Named("Names")), << >>)>>, <<"w">>)
        [] n = "Quiet" ->
             \* type Quiet struct {
             \*     A    string `json:"a"`
             \*     Gone q.Ext  `json:"-"`
             \*     Skip Empty  `json:"-"`
             \* }
             StructDecl(<<Tagged("A", "a", StringT, << >>),
                          Tagged("Gone", "-", Named("Ext"), << >>),
                          Tagged("Skip", "-", Named("Empty"), << >>)>>, <<"w">>)
        [] n = "Loop" ->
             \* type Loop struct { Val string `json:"val"`; Next *Loop }
             StructDecl(<<Tagged("Val", "val", StringT, << >>),
                          Tagged("Next", "", Ptr(Named("Loop")), << >>)>>, <<"w">>)
        [] n = "LoopS" ->
             \* type LoopS struct { Val string `json:"val"`; Kids []LoopS `json:"-"` }
             StructDecl(<<Tagged("Val", "val", StringT, << >>),
                          Tagged("Kids", "-", Slice(Named("LoopS")), << >>)>>, <<"w">>)
        [] n = "Ping" ->
             \* type Ping struct { Pong *Pong }
             StructDecl(<<Tagged("Pong", "", Ptr(Named("Pong")), << >>)>>, <<"w">>)
        [] n = "Pong" ->
             \* type Pong struct { Ping []Ping `json:"-"` }
             StructDecl(<<Tagged("Ping", "-", Slice(Named("Ping")), << >>)>>, <<"w">>)
        [] n = "Base" ->
             \* package r
             \* // v
             \* type Base struct { ID string `json:"id"` }
             DeclIn(PkgR, "struct", << >>, <<Tagged("ID", "id", StringT, << >>)>>, <<"v">>,
                    TRUE, TRUE)
        [] n = "EmbQ" ->
             \* type EmbQ struct {
             \*     // w
             \*     r.Base
             \*     // w
             \*     *AB
             \*     // w
             \*     C, D int
             \* }
             StructDecl(<<Field("Base", "", TRUE, TRUE, Named("Base"), "r", <<"w">>),
                          Field("AB", "", TRUE, TRUE, Ptr(Named("AB")), "AB", <<"w">>),
                          Tagged("C", "", IntT, <<"w">>),
                          Tagged("D", "", IntT, <<"w">>)>>, <<"v">>)
        [] n = "Mode" ->
             \* // Deprecated: v ENUM(w)
             \* type Mode string
             Decl("string", << >>, << >>, <<DEP, SP, "v", SP, ENUM, "w">>, TRUE, FALSE)]

\* Parser.pkgs: the package paths collectAllPackages has indexed.
LoadedPkgs == {PkgP, PkgR}

\* reflect.Type.Kind, as Kind().String() prints it.
Kind(t) ==
    CASE t.k = "builtin" -> t.name
      [] t.k = "named" -> decls[t.name].kind
      [] OTHER -> t.k

\* reflect.Type.Elem of a pointer, slice or map.
Elem(t) ==
    LET a == IF t.k = "named" THEN decls[t.name].under ELSE t.args
    IN a[Len(a)]

\* reflect.Type.Key of a map.
MapKey(t) ==
    LET a == IF t.k = "named" THEN decls[t.name].under ELSE t.args
    IN a[1]

\* reflect.Type.PkgPath: empty for predeclared and unnamed types.
PkgPath(t) == IF t.k = "named" THEN decls[t.name].pkg ELSE EmptyStr

\* reflect.Type.Name: empty for unnamed types.
Name(t) ==
    CASE t.k = "named" -> <<t.name>>
      [] t.k = "builtin" -> <<t.name>>
      [] OTHER -> EmptyStr

RECURSIVE TypeString(_)
\* reflect.Type.StringT.
TypeString(t) ==
    CASE t.k = "builtin" -> <<t.name>>
      [] t.k = "named" -> decls[t.name].pkg \o <<".", t.name>>
      [] t.k = "ptr" -> <<"*">> \o TypeString(t.args[1])
      [] t.k = "slice" -> <<"[]">> \o TypeString(t.args[1])
      [] t.k = "map" -> <<"map[">> \o TypeString(t.args[1]) \o <<"]">> \o TypeString(t.args[2])

RECURSIVE getKindString(_)
getKindString(t) ==
    CASE Kind(t) = "map" -> <<"map[">> \o getKindString(MapKey(t)) \o <<"]">> \o getKindString(Elem(t))
      [] Kind(t) = "slice" -> <<"[]">> \o getKindString(Elem(t))
      [] OTHER -> <<Kind(t)>>

\* A descriptor that names an unnamed slice by its element alone.
GetWithoutSliceMarker(t) ==
    LET t1 == IF Kind(t) = "ptr" THEN Elem(t) ELSE t
        unnamedSlice == PkgPath(t1) = EmptyStr /\ Kind(t1) = "slice"
        t2 == IF unnamedSlice THEN Elem(t1) ELSE t1
    IN IF PkgPath(t2) = EmptyStr
       THEN [Name |-> TypeString(t2), Kind |-> getKindString(t1), Package |-> EmptyStr]
       ELSE [Name |-> Name(t2), Kind |-> getKindString(t1), Package |-> PkgPath(t2)]

\* typeinfo.Get
Get(t) ==
    LET t1 == IF Kind(t) = "ptr" THEN Elem(t) ELSE t
        unnamedSlice == PkgPath(t1) = EmptyStr /\ Kind(t1) = "slice"
        prefix == IF unnamedSlice THEN <<"[]">> ELSE EmptyStr
        t2 == IF unnamedSlice THEN Elem(t1) ELSE t1
    IN IF PkgPath(t2) = EmptyStr
       THEN [Name |-> prefix \o TypeString(t2), Kind |-> getKindString(t1), Package |-> EmptyStr]
       ELSE [Name |-> prefix \o Name(t2), Kind |-> getKindString(t1), Package |-> PkgPath(t2)]

(***************************************************************************)
(* reflect.VisibleFields: the fields of a struct and, after each embedded  *)
(* struct member, the fields of that member; a name is visible when it is  *)
(* the only one at the shallowest depth at which the name occurs.          *)
(***************************************************************************)
RECURSIVE walkFields(_, _, _, _)
walkFields(t, i, depth, visiting) ==
    LET fs == decls[t.name].fields
    IN IF i > Len(fs) THEN << >>
       ELSE LET f == fs[i]
                ft == IF Kind(f.Type) = "ptr" THEN Elem(f.Type) ELSE f.Type
                inner == IF f.Anonymous /\ Kind(ft) = "struct" /\ ft.name \notin visiting
                         THEN walkFields(ft, 1, depth + 1, visiting \cup {ft.name})
                         ELSE << >>
            IN <<[f |-> f, depth |-> depth]>> \o inner \o walkFields(t, i + 1, depth, visiting)

VisibleFields(t) ==
    LET all == walkFields(t, 1, 1, {t.name})
        indexed == [i \in 1..Len(all) |-> [f |-> all[i].f, depth |-> all[i].depth, i |-> i]]
        hidden(e) == \E j \in 1..Len(all) :
                        /\ j # e.i
                        /\ all[j].f.Name = e.f.Name
                        /\ all[j].depth <= e.depth
        kept == SelectSeq(indexed, LAMBDA e : ~hidden(e))
    IN [i \in 1..Len(kept) |-> kept[i].f]

(***************************************************************************)
(* objectMapper.Map                                                        *)
(***************************************************************************)
PropertyDoc(path, info) ==
    [Path |-> path, TypeInfo |-> info, Rules |-> << >>, TypeDoc |-> EmptyStr,
     FieldDoc |-> EmptyStr, DeprecatedDoc |-> EmptyStr, ChildrenPaths |-> << >>]

Root == <<"$">>

Call(t, path, depth) == [typ |-> t, path |-> path, depth |-> depth]

\* setTypeInfo
setTypeInfo(doc, t) == [doc EXCEPT !.TypeInfo = Get(t)]

\* The name Map reads from the json tag: strings.Split(tag, ",")[0].
TagName(field) == IF field.JSON = "" THEN EmptyStr ELSE <<field.JSON>>

\* The member loop of Map: the fields it recurses into.
MappedFields(t) ==
    SelectSeq(VisibleFields(t), LAMBDA f : f.JSON # "" /\ f.JSON # "-")

\* The node Map appends on entry.
MapNode(t, path) ==
    LET t1 == IF Kind(t) = "ptr" THEN Elem(t) ELSE t
    IN setTypeInfo(PropertyDoc(path, [Name |-> EmptyStr, Kind |-> EmptyStr, Package |-> EmptyStr]), t1)

\* A walker that visits the value subtree of a map before the key subtree.
MapRecursionValueFirst(t, path, depth) ==
    LET t1 == IF Kind(t) = "ptr" THEN Elem(t) ELSE t
    IN CASE Kind(t1) = "struct" ->
              LET fs == MappedFields(t1)
              IN [i \in 1..Len(fs) |->
                    Call(fs[i].Type, path \o <<".">> \o TagName(fs[i]), depth + 1)]
         [] Kind(t1) = "slice" ->
              <<Call(Elem(t1), path \o <<"[*]">>, depth + 1)>>
         [] Kind(t1) = "map" ->
              <<Call(Elem(t1), path \o <<".", "*">>, depth + 1),
                Call(MapKey(t1), path \o <<".", "~">>, depth + 1)>>
         [] OTHER -> << >>

\* The calls Map makes after appending its node, in order.
MapRecursion(t, path, depth) ==
    LET t1 == IF Kind(t) = "ptr" THEN Elem(t) ELSE t
    IN CASE Kind(t1) = "struct" ->
              LET fs == MappedFields(t1)
              IN [i \in 1..Len(fs) |->
                    Call(fs[i].Type, path \o <<".">> \o TagName(fs[i]), depth + 1)]
         [] Kind(t1) = "slice" ->
              <<Call(Elem(t1), path \o <<"[*]">>, depth + 1)>>
         [] Kind(t1) = "map" ->
              <<Call(MapKey(t1), path \o <<".", "~">>, depth + 1),
                Call(Elem(t1), path \o <<".", "*">>, depth + 1)>>
         [] OTHER -> << >>

(***************************************************************************)
(* generateObjectDoc                                                       *)
(***************************************************************************)
\* A child search without the prefix test: every node is listed.
findPropertyChildrenPathsOfAll(parent, properties) ==
    [i \in 1..Len(properties) |-> properties[i].Path]

findPropertyChildrenPaths(parent, properties) ==
    LET immediate(p) ==
            LET cut == CutPrefix(p.Path, parent \o <<".">>)
            IN cut.found /\ ~Contains(cut.after, ".")
        children == SelectSeq(properties, immediate)
    IN [i \in 1..Len(children) |->
          parent \o <<".">> \o CutPrefix(children[i].Path, parent \o <<".">>).after]

\* The second pass of generateObjectDoc.
withChildrenPaths(properties) ==
    [i \in 1..Len(properties) |->
       [properties[i] EXCEPT
          !.ChildrenPaths = findPropertyChildrenPaths(properties[i].Path, properties)]]

(***************************************************************************)
(* godoc: Docs, Doc and the recursion of Parser.parse                      *)
(***************************************************************************)
NoDocs == << >>

Doc(name, pkg) == [Name |-> name, Package |-> pkg, Doc |-> EmptyStr, StructFields |-> NoDocs]

\* Doc.Key
Key(d) == IF d.Package = EmptyStr THEN d.Name ELSE d.Package \o <<".">> \o d.Name

\* d[k] = v on a Go map.
MapPut(d, k, v) == [x \in DOMAIN d \cup {k} |-> IF x = k THEN v ELSE d[x]]

\* Docs.add
add(d, doc) == MapPut(d, Key(doc), doc)

\* comment.Printer.Markdown of the parsed comment: nothing for an empty
\* comment, otherwise the text as a block ended by a newline.
docCommentToMarkdown(text) == IF text = EmptyStr THEN EmptyStr ELSE text \o <<NL>>

\* getStructFieldName
getStructFieldName(field) ==
    IF ~field.Exported THEN EmptyStr
    ELSE IF field.JSON = "" THEN <<field.Name>>
    ELSE IF field.JSON = "-" THEN EmptyStr
    ELSE <<field.JSON>>

\* The pointer/slice unwrapping at the head of parse.
Unwrap(t) == IF Kind(t) \in {"ptr", "slice"} THEN Elem(t) ELSE t

\* getTypeDeclarationInfo: "" when package and declaration are found.
getTypeDeclarationInfo(t) ==
    IF PkgPath(t) \notin LoadedPkgs THEN "could not find package"
    ELSE IF ~decls[t.name].declared THEN "failed to find declaration"
    ELSE ""

\* extractStructType: "" when the declaration body is a struct literal.
extractStructType(t) ==
    IF decls[t.name].astStruct THEN "" ELSE "expected ast.StructType"

\* buildASTFieldMap with addEmbeddedFieldToMap: the keys under which the
\* declaration fields are filed, and the doc comment of each.
buildASTFieldMap(t) ==
    LET fs == decls[t.name].fields
        keys == {fs[i].AST : i \in 1..Len(fs)} \ {""}
    IN [k \in keys |-> (CHOOSE f \in Range(fs) :
                          /\ f.AST = k
                          /\ \A i, j \in 1..Len(fs) :
                                (fs[i] = f /\ fs[j].AST = k) => j <= i).Doc]

\* A parse that registers the entry of a struct before its member loop and
\* hands back the entry it finds registered.
parseHeadRegisteringFirst(goType, d) ==
    LET t == Unwrap(goType)
        typeDoc == Doc(Name(t), PkgPath(t))
    IN IF PkgPath(t) = EmptyStr
       THEN [kind |-> "doc", doc |-> typeDoc, docs |-> d, err |-> "", t |-> t]
       ELSE IF Key(typeDoc) \in DOMAIN d
       THEN [kind |-> "doc", doc |-> d[Key(typeDoc)], docs |-> d, err |-> "", t |-> t]
       ELSE IF getTypeDeclarationInfo(t) # ""
       THEN [kind |-> "err", doc |-> typeDoc, docs |-> d,
             err |-> getTypeDeclarationInfo(t), t |-> t]
       ELSE LET withDoc == [typeDoc EXCEPT !.Doc = docCommentToMarkdown(decls[t.name].doc)]
            IN IF Kind(t) # "struct"
               THEN [kind |-> "doc", doc |-> withDoc, docs |-> add(d, withDoc), err |-> "", t |-> t]
               ELSE IF extractStructType(t) # ""
               THEN [kind |-> "err", doc |-> withDoc, docs |-> d,
                     err |-> extractStructType(t), t |-> t]
               ELSE [kind |-> "struct", doc |-> withDoc, docs |-> add(d, withDoc),
                     err |-> "", t |-> t]

\* parse up to the member loop: what it returns without recursing
\* (kind "doc" or "err"), or that the member loop is to be entered ("struct").
parseHead(goType, d) ==
    LET t == Unwrap(goType)
        typeDoc == Doc(Name(t), PkgPath(t))
    IN IF PkgPath(t) = EmptyStr
       THEN [kind |-> "doc", doc |-> typeDoc, docs |-> d, err |-> "", t |-> t]
       ELSE IF getTypeDeclarationInfo(t) # ""
       THEN [kind |-> "err", doc |-> typeDoc, docs |-> d,
             err |-> getTypeDeclarationInfo(t), t |-> t]
       ELSE LET withDoc == [typeDoc EXCEPT !.Doc = docCommentToMarkdown(decls[t.name].doc)]
            IN IF Kind(t) # "struct"
               THEN [kind |-> "doc", doc |-> withDoc, docs |-> add(d, withDoc), err |-> "", t |-> t]
               ELSE IF extractStructType(t) # ""
               THEN [kind |-> "err", doc |-> withDoc, docs |-> d,
                     err |-> extractStructType(t), t |-> t]
               ELSE [kind |-> "struct", doc |-> withDoc, docs |-> d, err |-> "", t |-> t]

\* A frame of parseStructFields: the struct type, the index of the member
\* being parsed and the Doc under construction.
Frame(t, typeDoc) == [t |-> t, i |-> 1, typeDoc |-> typeDoc]

\* parseStructField after parse of the member's type has returned fieldDoc.
parseStructField(frame, fieldDoc) ==
    LET field == decls[frame.t.name].fields[frame.i]
        fieldName == getStructFieldName(field)
        astFieldsByName == buildASTFieldMap(frame.t)
        documented == IF field.Name \in DOMAIN astFieldsByName
                      THEN [fieldDoc EXCEPT !.Doc = docCommentToMarkdown(astFieldsByName[field.Name])]
                      ELSE fieldDoc
    IN IF fieldName = EmptyStr
       THEN [frame EXCEPT !.i = @ + 1]
       ELSE [frame EXCEPT !.i = @ + 1,
                          !.typeDoc.StructFields = MapPut(@, fieldName, documented)]

\* A Parse that hands back the mapping without looking at its size.
ParseResultUnchecked(d, err) ==
    IF err # "" THEN [docs |-> NoDocs, err |-> err]
    ELSE [docs |-> d, err |-> ""]

\* A Parse that hands back what was registered before the failure.
ParseResultPartial(d, err) ==
    IF err # "" THEN [docs |-> d, err |-> err]
    ELSE IF DOMAIN d = {} THEN [docs |-> NoDocs, err |-> "no documentation found"]
    ELSE [docs |-> d, err |-> ""]

\* Parser.Parse once parse has returned err and left d in m.
ParseResult(d, err) ==
    IF err # "" THEN [docs |-> NoDocs, err |-> err]
    ELSE IF DOMAIN d = {} THEN [docs |-> NoDocs, err |-> "no documentation found"]
    ELSE [docs |-> d, err |-> ""]

(***************************************************************************)
(* govydoc: key, extendWithValidationPlan, mergeDocs                       *)
(***************************************************************************)
\* A key that leaves the package out.
keyOfNameAlone(p) == p.TypeInfo.Name

\* PropertyDoc.key
key(p) ==
    IF p.TypeInfo.Package = EmptyStr THEN p.TypeInfo.Name
    ELSE p.TypeInfo.Package \o <<".">> \o p.TypeInfo.Name

\* The index of the first property at the path, 0 when there is none.
IndexOfPath(properties, path) ==
    IF \E i \in 1..Len(properties) : properties[i].Path = path
    THEN CHOOSE i \in 1..Len(properties) :
            /\ properties[i].Path = path
            /\ \A j \in 1..(i - 1) : properties[j].Path # path
    ELSE 0

\* The PropertyDoc built from a rule fact: every documentation field empty.
FromPlan(propPlan, childrenPaths) ==
    [Path |-> propPlan.Path, TypeInfo |-> propPlan.TypeInfo, Rules |-> propPlan.Rules,
     TypeDoc |-> EmptyStr, FieldDoc |-> EmptyStr, DeprecatedDoc |-> EmptyStr,
     ChildrenPaths |-> childrenPaths]

RECURSIVE extendProperties(_, _, _)
\* The loop of extendWithValidationPlan from rule fact n on.
extendProperties(properties, facts, n) ==
    IF n > Len(facts) THEN properties
    ELSE LET i == IndexOfPath(properties, facts[n].Path)
             next == IF i = 0 THEN properties
                     ELSE [properties EXCEPT
                             ![i] = FromPlan(facts[n], properties[i].ChildrenPaths)]
         IN extendProperties(next, facts, n + 1)

\* An extension that appends the rule facts whose path no property has.
extendWithValidationPlanAppending(o, p) ==
    LET unmatched == SelectSeq(p.Properties, LAMBDA f : IndexOfPath(o.Properties, f.Path) = 0)
    IN [o EXCEPT !.Name = p.Name,
                 !.Properties = extendProperties(o.Properties, p.Properties, 1)
                                \o [i \in 1..Len(unmatched) |-> FromPlan(unmatched[i], << >>)]]

\* An extension whose replaced nodes lose their children paths.
extendWithValidationPlanDroppingChildren(o, p) ==
    LET extended == extendProperties(o.Properties, p.Properties, 1)
    IN [o EXCEPT !.Name = p.Name,
                 !.Properties = [i \in 1..Len(extended) |->
                                   IF extended[i] # o.Properties[i]
                                   THEN [extended[i] EXCEPT !.ChildrenPaths = << >>]
                                   ELSE extended[i]]]

extendWithValidationPlan(o, p) ==
    [o EXCEPT !.Name = p.Name, !.Properties = extendProperties(o.Properties, p.Properties, 1)]

\* Go iterates a map in an unspecified order; the field paths of one entry
\* are distinct, so the order does not show.  This fixes one.
RECURSIVE SetToSeq(_)
SetToSeq(S) ==
    IF S = {} THEN << >>
    ELSE LET x == CHOOSE x \in S : TRUE IN <<x>> \o SetToSeq(S \ {x})

RECURSIVE mergeFields(_, _, _, _)
\* The inner loop of mergeDocs over goDoc.StructFields.
mergeFields(properties, path, fields, names) ==
    IF names = << >> THEN properties
    ELSE LET j == IndexOfPath(properties, path \o <<".">> \o Head(names))
             next == IF j = 0 THEN properties
                     ELSE [properties EXCEPT ![j].FieldDoc = fields[Head(names)].Doc]
         IN mergeFields(next, path, fields, Tail(names))

RECURSIVE mergeFrom(_, _, _)
\* The loop of mergeDocs from property i on.
mergeFrom(properties, goDocs, i) ==
    IF i > Len(properties) THEN properties
    ELSE LET property == properties[i]
         IN IF property.TypeInfo.Package = EmptyStr \/ key(property) \notin DOMAIN goDocs
            THEN mergeFrom(properties, goDocs, i + 1)
            ELSE LET found == goDocs[key(property)]
                     fielded == mergeFields(properties, property.Path, found.StructFields,
                                            SetToSeq(DOMAIN found.StructFields))
                     merged == [fielded EXCEPT ![i] = [property EXCEPT !.TypeDoc = found.Doc]]
                 IN mergeFrom(merged, goDocs, i + 1)

\* What merging before the rule facts are applied leaves: the nodes replaced
\* by rule-fact nodes are without documentation.
mergeDocsBeforeFacts(o, goDocs) ==
    LET merged == mergeFrom(o.Properties, goDocs, 1)
    IN [o EXCEPT !.Properties =
          [i \in 1..Len(merged) |->
             IF merged[i].Rules # << >>
             THEN [merged[i] EXCEPT !.TypeDoc = EmptyStr, !.FieldDoc = EmptyStr]
             ELSE merged[i]]]

mergeDocs(o, goDocs) == [o EXCEPT !.Properties = mergeFrom(o.Properties, goDocs, 1)]

(***************************************************************************)
(* Post-processing: the regular expressions and the formatters             *)
(***************************************************************************)
IsSpace(c) == c \in {SP, NL}

RECURSIVE TrimLeft(_)
TrimLeft(s) == IF s # << >> /\ IsSpace(Head(s)) THEN TrimLeft(Tail(s)) ELSE s

RECURSIVE TrimRight(_)
TrimRight(s) ==
    IF s # << >> /\ IsSpace(s[Len(s)]) THEN TrimRight(SubSeq(s, 1, Len(s) - 1)) ELSE s

\* strings.TrimSpace
TrimSpace(s) == TrimRight(TrimLeft(s))

RECURSIVE SkipSpace(_, _)
\* The least index from i on that holds no white space, Len(s) + 1 if none.
SkipSpace(s, i) == IF i <= Len(s) /\ IsSpace(s[i]) THEN SkipSpace(s, i + 1) ELSE i

RECURSIVE SkipTo(_, _, _)
\* The least index from i on that holds the token, Len(s) + 1 if none.
SkipTo(s, i, tok) == IF i <= Len(s) /\ s[i] # tok THEN SkipTo(s, i + 1, tok) ELSE i

\* enumDeclarationRegex (?s)ENUM(.*) replaced by "": the text before the
\* first ENUM.
removeEnum(s) ==
    SubSeq(s, 1, SkipTo(s, 1, ENUM) - 1)

\* deprecatedRegex (?m)^Deprecated:\s*(.*)$ matched at index i: the marker at
\* the start of a line, then the longest run of white space (\s matches a
\* newline too), then the rest of the line reached.
MatchesAt(s, i) ==
    /\ i \in 1..Len(s)
    /\ s[i] = DEP
    /\ (i = 1 \/ s[i - 1] = NL)

\* Where the capture group of the match at i starts and where the match ends
\* (one past its last token).
GroupStart(s, i) == SkipSpace(s, i + 1)

MatchEnd(s, i) == SkipTo(s, GroupStart(s, i), NL)

\* deprecatedRegex.MatchString
MatchString(s) == \E i \in 1..Len(s) : MatchesAt(s, i)

\* deprecatedRegex.FindStringSubmatch(s)[1]: the group of the leftmost match.
FindStringSubmatch(s) ==
    LET i == CHOOSE i \in 1..Len(s) :
                 MatchesAt(s, i) /\ \A j \in 1..(i - 1) : ~MatchesAt(s, j)
    IN SubSeq(s, GroupStart(s, i), MatchEnd(s, i) - 1)

RECURSIVE ReplaceAllFrom(_, _)
ReplaceAllFrom(s, i) ==
    IF i > Len(s) THEN << >>
    ELSE IF MatchesAt(s, i) THEN ReplaceAllFrom(s, MatchEnd(s, i))
    ELSE <<s[i]>> \o ReplaceAllFrom(s, i + 1)

\* deprecatedRegex.ReplaceAllString(s, "")
ReplaceAllString(s) == ReplaceAllFrom(s, 1)

removeEnumDeclaration(doc) == [doc EXCEPT !.TypeDoc = removeEnum(doc.TypeDoc)]

removeTrailingWhitespace(doc) ==
    [doc EXCEPT !.TypeDoc = TrimSpace(doc.TypeDoc), !.FieldDoc = TrimSpace(doc.FieldDoc)]

extractDeprecatedInformation(doc) ==
    IF MatchString(doc.TypeDoc)
    THEN [doc EXCEPT !.DeprecatedDoc = TrimSpace(FindStringSubmatch(doc.TypeDoc)),
                     !.TypeDoc = TrimSpace(ReplaceAllString(doc.TypeDoc))]
    ELSE IF MatchString(doc.FieldDoc)
    THEN [doc EXCEPT !.DeprecatedDoc = TrimSpace(FindStringSubmatch(doc.FieldDoc)),
                     !.FieldDoc = TrimSpace(ReplaceAllString(doc.FieldDoc))]
    ELSE doc

\* A propertyPostProcessor, by name.
Format(formatter, doc) ==
    CASE formatter = "removeEnumDeclaration" -> removeEnumDeclaration(doc)
      [] formatter = "extractDeprecatedInformation" -> extractDeprecatedInformation(doc)
      [] formatter = "removeTrailingWhitespace" -> removeTrailingWhitespace(doc)

RECURSIVE FormatAll(_, _)
\* for _, formatter := range formatters { property = formatter(property) }
FormatAll(formatters, doc) ==
    IF formatters = << >> THEN doc
    ELSE FormatAll(Tail(formatters), Format(Head(formatters), doc))

\* var filterProperties
filterProperties == {<<"$", ".", "organization">>}

\* Whether the caller-supplied list excludes the path (exact match).
inFilterPaths(paths, path) == path \in paths

\* A filter that also drops everything below an excluded path.
postProcessPropertiesBySubtree(doc, paths, formatters) ==
    LET excluded(path) == path \in filterProperties \/ inFilterPaths(paths, path)
        below(path) == \E n \in 1..(Len(path) - 1) : excluded(SubSeq(path, 1, n))
        kept == SelectSeq(doc.Properties, LAMBDA p : ~excluded(p.Path) /\ ~below(p.Path))
    IN [doc EXCEPT !.Properties = [i \in 1..Len(kept) |-> FormatAll(formatters, kept[i])]]

\* A filter that knows the caller's list only.
postProcessPropertiesCallerListOnly(doc, paths, formatters) ==
    LET kept == SelectSeq(doc.Properties, LAMBDA p : ~inFilterPaths(paths, p.Path))
    IN [doc EXCEPT !.Properties = [i \in 1..Len(kept) |-> FormatAll(formatters, kept[i])]]

postProcessProperties(doc, paths, formatters) ==
    LET kept == SelectSeq(doc.Properties,
                          LAMBDA p : p.Path \notin filterProperties /\ ~inFilterPaths(paths, p.Path))
    IN [doc EXCEPT !.Properties = [i \in 1..Len(kept) |-> FormatAll(formatters, kept[i])]]

\* The formatters with the deprecation note extracted first.
FormattersExtractingFirst ==
    <<"extractDeprecatedInformation", "removeEnumDeclaration", "removeTrailingWhitespace">>

\* The formatters Generate passes, in its order.
GenerateFormatters ==
    <<"removeEnumDeclaration", "extractDeprecatedInformation", "removeTrailingWhitespace">>

(***************************************************************************)
(* Inputs of Generate                                                      *)
(***************************************************************************)
RootTypes ==
    {Named(n) : n \in DOMAIN Universe}
    \cup {Ptr(Named("AB")), Ptr(Ptr(Named("AB"))), Slice(Named("Inner")),
          MapOf(StringT, Named("Inner")), MapOf(Named("AB"), Named("Inner")), StringT, Ptr(StringT), Slice(StringT),
          MapOf(StringT, IntT)}

Member(name) == <<"$", ".", name>>

\* Paths a caller may exclude.
FilterCandidates == {Member("secret"), Member("a"), <<"$", ".", "items", "[*]">>}

FilterPathSets == {S \in SUBSET FilterCandidates : Cardinality(S) <= MaxFilterPaths}

\* Paths the validator's rules may name.
FactPaths == {Root, Member("a"), Member("secret"), Member("x"), Member("nomatch")}

RECURSIVE SeqsUpTo(_, _)
SeqsUpTo(S, n) ==
    IF n = 0 THEN {<< >>}
    ELSE LET shorter == SeqsUpTo(S, n - 1)
         IN shorter \cup {Append(q, x) : q \in shorter, x \in S}

\* govy.Plan: it fails, or gives a name and rule facts.  A fact at the path of
\* a property carries the type information of that property.
PlanName == <<"T">>

PropertyPlan(properties, path) ==
    LET i == IndexOfPath(properties, path)
    IN [Path |-> path,
        TypeInfo |-> IF i = 0 THEN Get(StringT) ELSE properties[i].TypeInfo,
        Rules |-> <<"rule">>]

Plans(properties) ==
    {[ok |-> FALSE, Name |-> EmptyStr, Properties |-> << >>]}
    \cup {[ok |-> TRUE, Name |-> PlanName,
           Properties |-> [n \in 1..Len(paths) |-> PropertyPlan(properties, paths[n])]] :
          paths \in SeqsUpTo(FactPaths, MaxFacts)}

NoPlan == [ok |-> FALSE, Name |-> EmptyStr, Properties |-> << >>]

EmptyObjectDoc == [Name |-> EmptyStr, Doc |-> EmptyStr, Properties |-> << >>]

NoGoDoc == [docs |-> NoDocs, err |-> ""]

NoResult == [doc |-> EmptyObjectDoc, err |-> ""]

(***************************************************************************)
(* One Parser used by several Parse calls, and FindModuleRoot: their state *)
(* while they do not run.                                                  *)
(***************************************************************************)
\* Parse calls that run at the same time on one Parser.
NumParses == 2

Procs == 1..NumParses

\* Directories between the filesystem root and the deepest working directory.
MaxDirs == 3

Dirs == 0..MaxDirs

\* collectAllPackages stores &goPackage{pkg: pkg}: no comment parser yet.
NoCommentParsers == [path \in LoadedPkgs |-> FALSE]

NoCall == [pc |-> "done", todo |-> << >>, err |-> ""]

ParsersIdle ==
    /\ commentParser = NoCommentParsers
    /\ calls = [c \in Procs |-> NoCall]

\* What FindModuleRoot returns: the directory (no element for "") and the error.
NoModuleRoot == [pc |-> "done", root |-> << >>, err |-> ""]

FindIdle ==
    /\ cwd = 0
    /\ goMod = [d \in Dirs |-> "none"]
    /\ dir = 0
    /\ moduleRoot = NoModuleRoot

\* Most packages packages.Load returns, dependencies included.
MaxPkgs == 3

\* Package paths, in the order of sort.Strings.
Pkgs == 1..MaxPkgs

\* What one package carries: pkg.Errors and pkg.Module ("none" for nil, "ok"
\* for a module without an error, "error" for mod.Error != nil).
PkgStates ==
    {[Errors |-> << >>, Module |-> "ok"],
     [Errors |-> <<"e1">>, Module |-> "none"],
     [Errors |-> <<"e1", "e2">>, Module |-> "error"],
     [Errors |-> << >>, Module |-> "error"]}

NoLoad == [roots |-> << >>, imports |-> [p \in Pkgs |-> {}],
           pkg |-> [p \in Pkgs |-> [Errors |-> << >>, Module |-> "ok"]]]

\* The error value nil.
NilError == [kind |-> "nil", count |-> 0, causes |-> << >>]

\* What NewParser returns: the parser (the package paths of Parser.pkgs, or
\* nil) and the error.
NilParser == [nil |-> TRUE, pkgs |-> {}]

NoNewParser == [pc |-> "done", parser |-> NilParser, err |-> NilError]

LoadIdle ==
    /\ loaded = NoLoad
    /\ toVisit = << >>
    /\ seen = {}
    /\ errs = << >>
    /\ newParser = NoNewParser

GenerateIdle ==
    /\ decls = Universe
    /\ typ = StringT
    /\ filterPaths = {}
    /\ plan = NoPlan
    /\ pc = "idle"
    /\ mapCalls = << >>
    /\ objectDoc = EmptyObjectDoc
    /\ parseStack = << >>
    /\ docs = NoDocs
    /\ parseErr = ""
    /\ goDoc = NoGoDoc
    /\ result = NoResult

(***************************************************************************)
(* Generate                                                                *)
(***************************************************************************)
Init ==
    /\ ParsersIdle
    /\ FindIdle
    /\ LoadIdle
    /\ decls = Universe
    /\ typ \in RootTypes
    /\ filterPaths \in FilterPathSets
    /\ plan = NoPlan
    /\ pc = "generateObjectDoc"
    /\ mapCalls = << >>
    /\ objectDoc = EmptyObjectDoc
    /\ parseStack = << >>
    /\ docs = NoDocs
    /\ parseErr = ""
    /\ goDoc = NoGoDoc
    /\ result = NoResult

\* generateObjectDoc up to the call of mapper.Map(goType, "$").
GenerateObjectDoc ==
    /\ pc = "generateObjectDoc"
    /\ mapCalls' = <<Call(IF Kind(typ) = "ptr" THEN Elem(typ) ELSE typ, Root, 1)>>
    /\ pc' = "Map"
    /\ UNCHANGED <<parsersVars, findVars, loadVars, decls, typ, filterPaths, plan, objectDoc, parseStack, docs, parseErr, goDoc, result>>

\* One call of objectMapper.Map: the node is appended and the calls of its
\* switch are made next, before the calls still pending.  A call nested
\* deeper than the stack allows ends the process.
Map ==
    /\ pc = "Map"
    /\ mapCalls # << >>
    /\ LET c == Head(mapCalls)
       IN IF c.depth > MaxDepth
          THEN /\ pc' = "fatal"
               /\ result' = [doc |-> EmptyObjectDoc, err |-> "Map: stack overflow"]
               /\ UNCHANGED <<mapCalls, objectDoc>>
          ELSE /\ objectDoc' = [objectDoc EXCEPT
                                  !.Properties = Append(@, MapNode(c.typ, c.path))]
               /\ mapCalls' = MapRecursion(c.typ, c.path, c.depth) \o Tail(mapCalls)
               /\ UNCHANGED <<pc, result>>
    /\ UNCHANGED <<parsersVars, findVars, loadVars, decls, typ, filterPaths, plan, parseStack, docs, parseErr, goDoc>>

\* The rest of generateObjectDoc, once Map has returned.
ChildrenPaths ==
    /\ pc = "Map"
    /\ mapCalls = << >>
    /\ objectDoc' = [objectDoc EXCEPT !.Properties = withChildrenPaths(@)]
    /\ pc' = "Parse"
    /\ UNCHANGED <<parsersVars, findVars, loadVars, decls, typ, filterPaths, plan, mapCalls, parseStack, docs, parseErr, goDoc, result>>

\* p.parse has returned err to Parse with d in m, and Parse returns to Generate.
ParseReturns(d, err) ==
    /\ parseErr' = err
    /\ goDoc' = ParseResult(d, err)
    /\ IF goDoc'.err # ""
       THEN pc' = "returned" /\ result' = [doc |-> EmptyObjectDoc, err |-> goDoc'.err]
       ELSE pc' = "Plan" /\ UNCHANGED result

\* Parser.Parse: m := make(Docs) and parse(goType, m) up to its member loop.
Parse ==
    /\ pc = "Parse"
    /\ LET h == parseHead(typ, NoDocs)
       IN IF h.kind = "struct"
          THEN /\ parseStack' = <<Frame(h.t, h.doc)>>
               /\ docs' = h.docs
               /\ pc' = "parse"
               /\ UNCHANGED <<parseErr, goDoc, result>>
          ELSE /\ docs' = h.docs
               /\ ParseReturns(h.docs, h.err)
               /\ UNCHANGED parseStack
    /\ UNCHANGED <<parsersVars, findVars, loadVars, decls, typ, filterPaths, plan, mapCalls, objectDoc>>

TopFrame == parseStack[Len(parseStack)]

NumField(t) == Len(decls[t.name].fields)

\* parseStructField for the next member of the innermost struct: its call of
\* parse either returns at once or enters the member loop of the member's type.
ParseStructField ==
    /\ pc = "parse"
    /\ TopFrame.i <= NumField(TopFrame.t)
    /\ LET h == parseHead(decls[TopFrame.t.name].fields[TopFrame.i].Type, docs)
       IN CASE h.kind = "struct" ->
                 IF Len(parseStack) >= MaxDepth
                 THEN /\ pc' = "fatal"
                      /\ result' = [doc |-> EmptyObjectDoc, err |-> "parse: stack overflow"]
                      /\ UNCHANGED <<parseStack, docs, parseErr, goDoc>>
                 ELSE /\ parseStack' = Append(parseStack, Frame(h.t, h.doc))
                      /\ docs' = h.docs
                      /\ UNCHANGED <<pc, parseErr, goDoc, result>>
            [] h.kind = "err" ->
                 /\ ParseReturns(docs, h.err)
                 /\ UNCHANGED <<parseStack, docs>>
            [] h.kind = "doc" ->
                 /\ parseStack' = [parseStack EXCEPT
                                     ![Len(parseStack)] = parseStructField(@, h.doc)]
                 /\ docs' = h.docs
                 /\ UNCHANGED <<pc, parseErr, goDoc, result>>
    /\ UNCHANGED <<parsersVars, findVars, loadVars, decls, typ, filterPaths, plan, mapCalls, objectDoc>>

\* The member loop of the innermost struct is over: docs.add(typeDoc), and
\* parse returns to parseStructField of the enclosing struct, or to Parse.
ParseStructDone ==
    /\ pc = "parse"
    /\ TopFrame.i > NumField(TopFrame.t)
    /\ docs' = add(docs, TopFrame.typeDoc)
    /\ IF Len(parseStack) = 1
       THEN /\ parseStack' = << >>
            /\ ParseReturns(docs', "")
       ELSE /\ parseStack' = [SubSeq(parseStack, 1, Len(parseStack) - 1) EXCEPT
                                ![Len(parseStack) - 1] = parseStructField(@, TopFrame.typeDoc)]
            /\ UNCHANGED <<pc, parseErr, goDoc, result>>
    /\ UNCHANGED <<parsersVars, findVars, loadVars, decls, typ, filterPaths, plan, mapCalls, objectDoc>>

\* govy.Plan and extendWithValidationPlan.
Plan ==
    /\ pc = "Plan"
    /\ \E p \in Plans(objectDoc.Properties) :
          /\ plan' = p
          /\ IF p.ok
             THEN /\ objectDoc' = extendWithValidationPlan(objectDoc, p)
                  /\ pc' = "mergeDocs"
                  /\ UNCHANGED result
             ELSE /\ result' = [doc |-> EmptyObjectDoc,
                                err |-> "failed to generate validation plan"]
                  /\ pc' = "returned"
                  /\ UNCHANGED objectDoc
    /\ UNCHANGED <<parsersVars, findVars, loadVars, decls, typ, filterPaths, mapCalls, parseStack, docs, parseErr, goDoc>>

MergeDocs ==
    /\ pc = "mergeDocs"
    /\ objectDoc' = mergeDocs(objectDoc, goDoc.docs)
    /\ pc' = "postProcessProperties"
    /\ UNCHANGED <<parsersVars, findVars, loadVars, decls, typ, filterPaths, plan, mapCalls, parseStack, docs, parseErr, goDoc, result>>

PostProcessProperties ==
    /\ pc = "postProcessProperties"
    /\ result' = [doc |-> postProcessProperties(objectDoc, filterPaths, GenerateFormatters),
                  err |-> ""]
    /\ pc' = "returned"
    /\ UNCHANGED <<parsersVars, findVars, loadVars, decls, typ, filterPaths, plan, mapCalls, objectDoc, parseStack, docs, parseErr, goDoc>>

Next ==
    \/ GenerateObjectDoc
    \/ Map
    \/ ChildrenPaths
    \/ Parse
    \/ ParseStructField
    \/ ParseStructDone
    \/ Plan
    \/ MergeDocs
    \/ PostProcessProperties

Spec == Init /\ [][Next]_vars

(***************************************************************************)
(* Properties of the walk                                                  *)
(***************************************************************************)
Deref(t) == IF Kind(t) = "ptr" THEN Elem(t) ELSE t

\* The type Map sees at "$": Generate and Map each remove one pointer level.
RootType == Deref(Deref(typ))

\* generateObjectDoc has returned and nothing has touched its result yet.
Walked == pc = "Parse"

Paths(properties) == [i \in 1..Len(properties) |-> properties[i].Path]

NodePaths == Paths(objectDoc.Properties)

IsStructNode(p) == p.TypeInfo.Kind = <<"struct">>
IsSliceNode(p) == Head(p.TypeInfo.Kind) = "[]"
IsMapNode(p) == Head(p.TypeInfo.Kind) = "map["

\* The output names of the members of the struct a node describes.
MemberNames(p) ==
    {f.JSON : f \in Range(VisibleFields(Named(p.TypeInfo.Name[1])))} \ {"", "-"}

\* A struct whose only members are two tagged members of built-in types.
TwoTaggedBuiltins(t) ==
    /\ t.k = "named"
    /\ Kind(t) = "struct"
    /\ Len(decls[t.name].fields) = 2
    /\ \A i \in 1..2 :
          LET f == decls[t.name].fields[i]
          IN f.Type.k = "builtin" /\ f.JSON \notin {"", "-"} /\ ~f.Anonymous

\* C1: for a struct root whose only members are two tagged members a and b of
\* built-in types, generateObjectDoc returns exactly the nodes "$", "$.a" and
\* "$.b" in this order, the root lists "$.a" and "$.b" as its children and
\* the two member nodes list no children.
C1_TwoMemberStruct ==
    (Walked /\ TwoTaggedBuiltins(RootType)) =>
        LET fs == decls[RootType.name].fields
            a == Root \o <<".", fs[1].JSON>>
            b == Root \o <<".", fs[2].JSON>>
            P == objectDoc.Properties
        IN /\ NodePaths = <<Root, a, b>>
           /\ P[1].ChildrenPaths = <<a, b>>
           /\ P[2].ChildrenPaths = << >>
           /\ P[3].ChildrenPaths = << >>

C1_Witness ==
    /\ Walked
    /\ typ = Named("AB")
    /\ NodePaths = <<Root, Member("a"), Member("b")>>

\* The node q is where the path convention puts a child of the node p.
ConventionalChild(p, q) ==
    \/ IsStructNode(p) /\ \E n \in MemberNames(p) : q.Path = p.Path \o <<".", n>>
    \/ IsSliceNode(p) /\ q.Path = p.Path \o <<"[*]">>
    \/ IsMapNode(p) /\ q.Path \in {p.Path \o <<".", "~">>, p.Path \o <<".", "*">>}

\* C2: the first node is "$"; every other node is a tagged member "P.name"
\* of an earlier struct node P, the element "P[*]" of an earlier slice node
\* P, or the key "P.~" or value "P.*" of an earlier map node P; the element
\* node of a slice never comes before the slice's own node, and the key node
\* of a map comes after the map's own node and, with everything below the
\* key, before the value node.
C2_PathConvention ==
    LET P == objectDoc.Properties
    IN /\ P # << >> => P[1].Path = Root
       /\ \A i \in 2..Len(P) : \E j \in 1..(i - 1) : ConventionalChild(P[j], P[i])
       /\ \A i, j \in 1..Len(P) :
             /\ (IsSliceNode(P[i]) /\ P[j].Path = P[i].Path \o <<"[*]">>) => i < j
             /\ (IsMapNode(P[i]) /\ P[j].Path = P[i].Path \o <<".", "~">>) =>
                   /\ i < j
                   /\ \A k \in 1..Len(P) :
                         P[k].Path = P[i].Path \o <<".", "*">> =>
                            \A m \in 1..Len(P) : HasPrefix(P[m].Path, P[j].Path) => m < k
             /\ (IsMapNode(P[i]) /\ P[j].Path = P[i].Path \o <<".", "*">>) =>
                   \E k \in (i + 1)..(j - 1) : P[k].Path = P[i].Path \o <<".", "~">>

C2_Witness ==
    /\ Walked
    /\ typ = MapOf(Named("AB"), Named("Inner"))
    /\ NodePaths = <<Root, <<"$", ".", "~">>, <<"$", ".", "~", ".", "a">>,
                     <<"$", ".", "~", ".", "b">>, <<"$", ".", "*">>,
                     <<"$", ".", "*", ".", "key">>>>

\* The path of the structural parent: without the trailing "[*]" or ".name".
ParentPath(path) ==
    IF path[Len(path)] = "[*]"
    THEN SubSeq(path, 1, Len(path) - 1)
    ELSE SubSeq(path, 1, Len(path) - 2)

\* C3: in the list generateObjectDoc returns no two nodes have the same path,
\* and every node other than "$" has its structural parent in the list.
C3_UniquePathsWithParents ==
    Walked =>
        LET P == objectDoc.Properties
        IN /\ \A i, j \in 1..Len(P) : P[i].Path = P[j].Path => i = j
           /\ \A i \in 1..Len(P) :
                 P[i].Path # Root => \E j \in 1..Len(P) : P[j].Path = ParentPath(P[i].Path)

\* C4: Map, started at "$", returns: the walk does not run until the stack is
\* exhausted, whatever type it is given.
C4_WalkTerminates == ~(pc = "fatal" /\ result.err = "Map: stack overflow")

(***************************************************************************)
(* Properties of Parse and mergeDocs                                       *)
(***************************************************************************)
\* mergeDocs has returned and post-processing has not started.
Merged == pc = "postProcessProperties"

\* The qualified name of the node's type is declared with a doc comment.
HasDeclaredComment(info) ==
    /\ info.Package # EmptyStr
    /\ Len(info.Name) = 1
    /\ info.Name[1] \in DOMAIN decls
    /\ decls[info.Name[1]].pkg = info.Package
    /\ decls[info.Name[1]].declared
    /\ decls[info.Name[1]].doc # EmptyStr

\* C5: for a struct root without self-reference, after Parse and mergeDocs
\* every node whose type's qualified name is declared with a doc comment has
\* a non-empty typeDoc, whether the walker reached the type as a member, a
\* slice element, a pointer target, a map key or a map value, and every node
\* with an empty package has an empty typeDoc.
C5_RoundTrip ==
    (Merged /\ Kind(RootType) = "struct") =>
        \A i \in 1..Len(objectDoc.Properties) :
           LET p == objectDoc.Properties[i]
           IN /\ HasDeclaredComment(p.TypeInfo) => p.TypeDoc # EmptyStr
              /\ p.TypeInfo.Package = EmptyStr => p.TypeDoc = EmptyStr

\* Parse has returned to Generate.
ParseReturned == pc \in {"Plan", "mergeDocs", "postProcessProperties", "returned"}

NoDocumentation == "no documentation found"

\* The root has an empty package path once one pointer or slice level is removed.
RootIsBuiltin ==
    PkgPath(IF Kind(typ) \in {"ptr", "slice"} THEN Elem(typ) ELSE typ) = EmptyStr

\* C6: Parse on a root whose package path is empty after one pointer or slice
\* level is removed fails with "no documentation found" and returns no
\* mapping; Parse returns that error exactly when its recursion returned no
\* error and registered no entry.
C6_NoDocumentation ==
    ParseReturned =>
        /\ RootIsBuiltin => goDoc = [docs |-> NoDocs, err |-> NoDocumentation]
        /\ goDoc.err = NoDocumentation <=> (parseErr = "" /\ DOMAIN docs = {})
        /\ goDoc.err # "" => goDoc.docs = NoDocs

C6_Witness ==
    /\ ParseReturned
    /\ typ = Ptr(StringT)
    /\ parseErr = ""
    /\ goDoc.err = NoDocumentation

(***************************************************************************)
(* Properties of post-processing                                           *)
(***************************************************************************)
\* Generate has returned a document.
Generated == pc = "returned" /\ result.err = ""

ResultPaths == Paths(result.doc.Properties)

Secret == Member("secret")

BelowSecret(path) == HasPrefix(path, Secret \o <<".">>)

\* The caller excludes "$.secret" and the root struct has a member secret.
SecretExcluded ==
    /\ Generated
    /\ Kind(RootType) = "struct"
    /\ Secret \in filterPaths
    /\ Secret \in Range(NodePaths)

\* C7 as stated: with "$.secret" excluded and a root struct with a member
\* secret, the final document has no node at "$.secret" and no node whose
\* path starts with "$.secret.".
C7_ExclusionRemovesSubtree ==
    SecretExcluded =>
        \A path \in Range(ResultPaths) : path # Secret /\ ~BelowSecret(path)

\* C7 amended: with "$.secret" excluded and a root struct with a member
\* secret, the final document has no node at "$.secret"; a node whose path
\* starts with "$.secret." is kept unless its own path is excluded.
C7_ExclusionIsExact ==
    SecretExcluded =>
        /\ Secret \notin Range(ResultPaths)
        /\ \A path \in Range(NodePaths) :
              (BelowSecret(path) /\ path \notin filterPaths \cup filterProperties)
                  => path \in Range(ResultPaths)

C7_Witness ==
    /\ SecretExcluded
    /\ typ = Named("Outer")
    /\ Secret \notin Range(ResultPaths)
    /\ (Secret \o <<".", "key">>) \in Range(ResultPaths)

\* C8: the document Generate returns has no property whose path is in
\* filterProperties or in the list given with WithFilteredPaths, and keeps,
\* in order, every property whose path is in neither.
C8_FilteredPaths ==
    Generated =>
        ResultPaths = SelectSeq(NodePaths,
                                LAMBDA path : path \notin filterProperties \cup filterPaths)

C8_Witness ==
    /\ Generated
    /\ typ = Named("Org")
    /\ filterPaths = {Member("a")}
    /\ ResultPaths = <<Root, Member("title"), Member("title") \o <<"[*]">>, Member("old")>>

\* C9: post-processing a document Generate returned once more, with the same
\* formatters and exclusion list, gives the same document, also when the
\* typeDoc and the fieldDoc of a node both had a "Deprecated:" line.
C9_Idempotent ==
    Generated =>
        postProcessProperties(result.doc, filterPaths, GenerateFormatters) = result.doc

RECURSIVE Lines(_)
\* The lines of a text.
Lines(s) ==
    LET n == SkipTo(s, 1, NL)
    IN IF n > Len(s) THEN <<s>>
       ELSE <<SubSeq(s, 1, n - 1)>> \o Lines(SubSeq(s, n + 1, Len(s)))

IsDeprecatedLine(line) == line # << >> /\ Head(line) = DEP

HasDeprecatedLine(s) == \E i \in 1..Len(Lines(s)) : IsDeprecatedLine(Lines(s)[i])

\* The first line of the text that starts with the marker.
FirstDeprecatedLine(s) ==
    LET k == CHOOSE i \in 1..Len(Lines(s)) :
                /\ IsDeprecatedLine(Lines(s)[i])
                /\ \A j \in 1..(i - 1) : ~IsDeprecatedLine(Lines(s)[j])
    IN Lines(s)[k]

\* What a text says, line by line, white space at line ends and blank lines aside.
Content(s) ==
    LET trimmed == [i \in 1..Len(Lines(s)) |-> TrimSpace(Lines(s)[i])]
    IN SelectSeq(trimmed, LAMBDA line : line # << >>)

\* The content of a text without its lines that start with the marker.
ContentWithoutDeprecated(s) ==
    SelectSeq(Content(s), LAMBDA line : ~IsDeprecatedLine(line))

\* The node out is what C10 says extractDeprecatedInformation makes of in.
ExtractedAsStated(in, out) ==
    IF HasDeprecatedLine(in.TypeDoc)
    THEN /\ out.DeprecatedDoc = TrimSpace(Tail(FirstDeprecatedLine(in.TypeDoc)))
         /\ Content(out.TypeDoc) = ContentWithoutDeprecated(in.TypeDoc)
         /\ out.FieldDoc = in.FieldDoc
    ELSE IF HasDeprecatedLine(in.FieldDoc)
    THEN /\ out.DeprecatedDoc = TrimSpace(Tail(FirstDeprecatedLine(in.FieldDoc)))
         /\ Content(out.FieldDoc) = ContentWithoutDeprecated(in.FieldDoc)
         /\ out.TypeDoc = in.TypeDoc
    ELSE out = in

\* C10: extractDeprecatedInformation, given a node whose typeDoc has a line
\* starting with "Deprecated:", sets deprecatedDoc to the trimmed rest of
\* that line, removes the line from typeDoc and leaves fieldDoc alone; it
\* treats fieldDoc so only when typeDoc has no such line; it returns a node
\* with no such line unchanged. Stated of every node Generate hands to it.
C10_DeprecationExtraction ==
    Merged =>
        \A i \in 1..Len(objectDoc.Properties) :
           LET in == removeEnumDeclaration(objectDoc.Properties[i])
           IN ExtractedAsStated(in, extractDeprecatedInformation(in))

(***************************************************************************)
(* Properties of typeinfo.Get                                              *)
(***************************************************************************)
\* The types Map is about to be called with.
PendingTypes == {mapCalls[i].typ : i \in 1..Len(mapCalls)}

RevealsPointer(info) == Contains(info.Name, "*") \/ Contains(info.Kind, "ptr")

\* C11: for every type X the walker describes, Get of a pointer to X is Get
\* of X, and the descriptor of X shows no pointer in its name or its kind.
C11_PointerTransparency ==
    \A t \in PendingTypes :
       /\ Get(Ptr(t)) = Get(t)
       /\ ~RevealsPointer(Get(t))

RECURSIVE Shape(_)
\* The underlying shape of a type, slices and maps expanded.
Shape(t) ==
    CASE t.k = "builtin" -> <<t.name>>
      [] t.k = "ptr" -> <<"ptr">>
      [] t.k = "slice" -> <<"[]">> \o Shape(t.args[1])
      [] t.k = "map" -> <<"map[">> \o Shape(t.args[1]) \o <<"]">> \o Shape(t.args[2])
      [] t.k = "named" ->
           LET d == decls[t.name]
           IN CASE d.kind = "slice" -> <<"[]">> \o Shape(d.under[1])
                [] d.kind = "map" ->
                     <<"map[">> \o Shape(d.under[1]) \o <<"]">> \o Shape(d.under[2])
                [] OTHER -> <<d.kind>>

IsNamedSlice(t) == t.k = "named" /\ decls[t.name].kind = "slice"

\* C12: Get of an unnamed slice of a built-in E has an empty package and the
\* name "[]" + E; of an unnamed slice of a named E it has E's package and the
\* name "[]" + E's bare name; a named slice type has its own name and
\* package; the kind of each is the underlying shape, expanded recursively.
C12_SliceDescriptors ==
    \A t \in PendingTypes :
       LET info == Get(t)
       IN /\ (t.k = "slice" /\ t.args[1].k = "builtin") =>
                /\ info.Package = EmptyStr
                /\ info.Name = <<"[]", t.args[1].name>>
          /\ (t.k = "slice" /\ t.args[1].k = "named") =>
                /\ info.Package = decls[t.args[1].name].pkg
                /\ info.Name = <<"[]", t.args[1].name>>
          /\ IsNamedSlice(t) =>
                /\ info.Package = decls[t.name].pkg
                /\ info.Name = <<t.name>>
          /\ (t.k = "slice" \/ IsNamedSlice(t)) => info.Kind = Shape(t)

C12_Witness ==
    /\ pc = "Map"
    /\ typ = Named("Refs")
    /\ Slice(Named("Names")) \in PendingTypes
    /\ Get(Slice(Named("Names"))) =
          [Name |-> <<"[]", "Names">>, Kind |-> <<"[]", "[]", "string">>, Package |-> PkgP]

(***************************************************************************)
(* Properties of the keys                                                  *)
(***************************************************************************)
\* The entries Parse returned.
Entries == {goDoc.docs[k] : k \in DOMAIN goDoc.docs}

SameType(p, d) == p.TypeInfo.Package = d.Package /\ p.TypeInfo.Name = d.Name

\* C13: the key of a node and the key of an entry are equal exactly when
\* their packages and names are: each is the bare name for an empty package
\* and package + "." + name otherwise; so after mergeDocs a node of a named
\* type carries the Doc of the entry of its package and name, and a node
\* without such an entry carries none.
C13_KeysCorrelate ==
    Merged =>
        \A i \in 1..Len(objectDoc.Properties) :
           LET p == objectDoc.Properties[i]
           IN /\ \A d \in Entries : key(p) = Key(d) <=> SameType(p, d)
              /\ \A d \in Entries :
                    (SameType(p, d) /\ d.Package # EmptyStr) => p.TypeDoc = d.Doc
              /\ (~\E d \in Entries : SameType(p, d)) => p.TypeDoc = EmptyStr

C13_Witness ==
    /\ Merged
    /\ typ = Named("Outer")
    /\ \E i \in 1..Len(objectDoc.Properties) :
          LET p == objectDoc.Properties[i]
          IN /\ p.Path = Member("secret")
             /\ key(p) = <<"p", ".", "Inner">>
             /\ key(p) \in DOMAIN goDoc.docs
             /\ p.TypeDoc = goDoc.docs[key(p)].Doc
             /\ p.TypeDoc # EmptyStr

(***************************************************************************)
(* Properties of the document and of failed correlation                    *)
(***************************************************************************)
\* The doc comment of the root type, empty when it has none.
RootComment == IF RootType.k = "named" THEN decls[RootType.name].doc ELSE EmptyStr

\* C14: after a successful Generate the Doc field of the document holds the
\* documentation of the root type: it is not empty when the root type has a
\* doc comment.
C14_DocumentDoc ==
    (Generated /\ RootComment # EmptyStr) => result.doc.Doc # EmptyStr

RECURSIVE LookupFailsWithin(_)
\* The package or the declaration of the type, or of the type of a struct
\* member at any depth below it, is not found or has not the shape of a
\* struct; pointers and slices are looked through one level, as parse does.
LookupFailsWithin(t) ==
    LET u == IF t.k \in {"ptr", "slice"} THEN t.args[1] ELSE t
    IN /\ u.k = "named"
       /\ LET d == decls[u.name]
          IN \/ d.pkg \notin LoadedPkgs
             \/ ~d.declared
             \/ /\ d.kind = "struct"
                /\ \/ ~d.astStruct
                   \/ \E i \in 1..Len(d.fields) : LookupFailsWithin(d.fields[i].Type)

\* C15: when a lookup fails for the root type or for the type of a struct
\* member at any depth, Parse returns an error and no mapping, whatever was
\* registered before the failure; it returns a mapping only when no lookup
\* failed.
C15_NoPartialSuccess ==
    ParseReturned =>
        /\ LookupFailsWithin(typ) => (goDoc.err # "" /\ goDoc.docs = NoDocs)
        /\ goDoc.docs # NoDocs => (goDoc.err = "" /\ ~LookupFailsWithin(typ))

C15_Witness ==
    /\ ParseReturned
    /\ typ = Named("Holder")
    /\ <<"p", ".", "Empty">> \in DOMAIN docs
    /\ goDoc = [docs |-> NoDocs, err |-> "failed to find declaration"]

(***************************************************************************)
(* The order of the properties                                             *)
(***************************************************************************)
RECURSIVE PreOrder(_, _)
RECURSIVE PreOrderOfMembers(_, _, _)
\* The paths below a type in depth-first order, the path of the type first.
PreOrder(t, path) ==
    LET u == Deref(t)
    IN <<path>> \o
       CASE Kind(u) = "struct" -> PreOrderOfMembers(MappedFields(u), 1, path)
         [] Kind(u) = "slice" -> PreOrder(Elem(u), path \o <<"[*]">>)
         [] Kind(u) = "map" -> PreOrder(MapKey(u), path \o <<".", "~">>)
                               \o PreOrder(Elem(u), path \o <<".", "*">>)
         [] OTHER -> << >>

\* The same for the members of a struct from member i on.
PreOrderOfMembers(fs, i, path) ==
    IF i > Len(fs) THEN << >>
    ELSE PreOrder(fs[i].Type, path \o <<".", fs[i].JSON>>)
         \o PreOrderOfMembers(fs, i + 1, path)

\* The walk is over and Generate has not died of a stack overflow.
AfterWalk == pc \notin {"generateObjectDoc", "Map", "fatal"}

\* C16: from the end of the walk on the paths of the properties are the
\* depth-first pre-order list of the root type, whatever
\* extendWithValidationPlan and mergeDocs did to the nodes, and the paths of
\* the document Generate returns are that list without the excluded paths,
\* in the same order.
C16_StableOrder ==
    /\ AfterWalk => NodePaths = PreOrder(Deref(typ), Root)
    /\ Generated =>
          ResultPaths = SelectSeq(PreOrder(Deref(typ), Root),
                                  LAMBDA path : path \notin filterProperties \cup filterPaths)

C16_Witness ==
    /\ Generated
    /\ typ = Named("Outer")
    /\ filterPaths = {Secret}
    /\ Len(plan.Properties) = 2
    /\ plan.Properties[1].Path = Member("nomatch")
    /\ plan.Properties[2].Path = Secret
    /\ Len(ResultPaths) = Len(NodePaths) - 1
    /\ result.doc.Name = PlanName

(***************************************************************************)
(* Parse calls running at the same time on one Parser.  Each call makes    *)
(* the lookups of Parser.parse in its depth-first order; a step is one     *)
(* access to the state of the Parser.                                      *)
(***************************************************************************)
RECURSIVE LookupsOf(_)
RECURSIVE LookupsOfFields(_, _)
\* The types parse hands to getTypeDeclarationInfo, in order, when no lookup
\* fails: the type itself, then those of its struct fields.
LookupsOf(t) ==
    LET u == Unwrap(t)
    IN IF PkgPath(u) = EmptyStr THEN << >>
       ELSE <<u>> \o (IF Kind(u) = "struct" /\ getTypeDeclarationInfo(u) = ""
                             /\ extractStructType(u) = ""
                      THEN LookupsOfFields(decls[u.name].fields, 1)
                      ELSE << >>)

LookupsOfFields(fs, i) ==
    IF i > Len(fs) THEN << >>
    ELSE LookupsOf(fs[i].Type) \o LookupsOfFields(fs, i + 1)

\* The root types of the concurrent calls.
ConcurrentRoots == {Named("AB"), Named("Outer"), Named("Holder"), Named("Ext"), StringT}

\* Parse(goType) entered.
StartCall(t) ==
    [pc |-> IF LookupsOf(t) = << >> THEN "done" ELSE "getPackageByPath",
     todo |-> LookupsOf(t), err |-> ""]

InitParsers ==
    /\ GenerateIdle
    /\ FindIdle
    /\ LoadIdle
    /\ commentParser = NoCommentParsers
    /\ calls \in [Procs -> {StartCall(t) : t \in ConcurrentRoots}]

\* The package of the lookup the call is making.
PkgOf(c) == PkgPath(Head(calls[c].todo))

\* getTypeDeclarationInfo: pkg := p.getPackageByPath(pkgPath), nil when absent.
GetPackageByPath(c) ==
    /\ calls[c].pc = "getPackageByPath"
    /\ calls' = [calls EXCEPT ![c] =
                   IF PkgOf(c) \in DOMAIN commentParser
                   THEN [@ EXCEPT !.pc = "commentParser"]
                   ELSE [@ EXCEPT !.pc = "done", !.err = "could not find package"]]
    /\ UNCHANGED <<generateVars, findVars, loadVars, commentParser>>

\* getTypeDeclarationInfo: if pkg.commentParser == nil.
CommentParserIsNil(c) ==
    /\ calls[c].pc = "commentParser"
    /\ calls' = [calls EXCEPT ![c].pc = IF commentParser[PkgOf(c)]
                                        THEN "findTypeDeclaration"
                                        ELSE "newCommentParserForPackage"]
    /\ UNCHANGED <<generateVars, findVars, loadVars, commentParser>>

\* getTypeDeclarationInfo: pkg.commentParser = p.newCommentParserForPackage(pkg.pkg).
NewCommentParserForPackage(c) ==
    /\ calls[c].pc = "newCommentParserForPackage"
    /\ commentParser' = [commentParser EXCEPT ![PkgOf(c)] = TRUE]
    /\ calls' = [calls EXCEPT ![c].pc = "findTypeDeclaration"]
    /\ UNCHANGED <<generateVars, findVars, loadVars>>

\* getTypeDeclarationInfo: findTypeDeclaration and the return to parse.
FindTypeDeclaration(c) ==
    /\ calls[c].pc = "findTypeDeclaration"
    /\ calls' = [calls EXCEPT ![c] =
                   IF decls[Head(@.todo).name].declared
                   THEN [@ EXCEPT !.pc = "docCommentToMarkdown"]
                   ELSE [@ EXCEPT !.pc = "done", !.err = "failed to find declaration"]]
    /\ UNCHANGED <<generateVars, findVars, loadVars, commentParser>>

\* parse: docCommentToMarkdown(pkg.commentParser, ...), extractStructType for a
\* struct, and on to the next lookup.
DocCommentToMarkdown(c) ==
    /\ calls[c].pc = "docCommentToMarkdown"
    /\ LET t == Head(calls[c].todo)
           rest == Tail(calls[c].todo)
       IN calls' = [calls EXCEPT ![c] =
                      IF Kind(t) = "struct" /\ extractStructType(t) # ""
                      THEN [@ EXCEPT !.pc = "done", !.err = extractStructType(t)]
                      ELSE [@ EXCEPT !.pc = IF rest = << >> THEN "done" ELSE "getPackageByPath",
                                     !.todo = rest]]
    /\ UNCHANGED <<generateVars, findVars, loadVars, commentParser>>

NextParsers ==
    \E c \in Procs :
       \/ GetPackageByPath(c)
       \/ CommentParserIsNil(c)
       \/ NewCommentParserForPackage(c)
       \/ FindTypeDeclaration(c)
       \/ DocCommentToMarkdown(c)

SpecParsers == InitParsers /\ [][NextParsers]_vars

\* The field of the Parser the next step of the call reads.
Reads(c) ==
    CASE calls[c].pc = "getPackageByPath" -> {<<"pkgs">>}
      [] calls[c].pc \in {"commentParser", "docCommentToMarkdown"} ->
           {<<"pkgs", PkgOf(c), "commentParser">>}
      [] calls[c].pc = "findTypeDeclaration" -> {<<"pkgs", PkgOf(c), "pkg">>}
      [] OTHER -> {}

\* The field of the Parser the next step of the call writes.
Writes(c) ==
    IF calls[c].pc = "newCommentParserForPackage"
    THEN {<<"pkgs", PkgOf(c), "commentParser">>}
    ELSE {}

\* C17: two Parse calls on one Parser never stand at conflicting accesses:
\* no call is about to write a field of the Parser that another call is
\* about to read or to write.
C17_NoConflictingAccess ==
    \A a, b \in Procs :
       a # b => Writes(a) \cap (Reads(b) \cup Writes(b)) = {}

(***************************************************************************)
(* FindModuleRoot.  A directory is its depth below the filesystem root, 0  *)
(* for the root itself; goMod tells what os.Stat finds at dir/go.mod:      *)
(* nothing, a file, a directory, or an error other than not-exist.         *)
(***************************************************************************)
\* filepath.Dir: the parent, the root for the root.
ParentDir(d) == IF d = 0 THEN 0 ELSE d - 1

\* A walk that takes a directory named go.mod for the marker.
statGoModAcceptingDirectories(fs, d) ==
    CASE fs[d] = "error" -> [kind |-> "return", root |-> << >>, err |-> "failed to stat"]
      [] fs[d] \in {"file", "dir"} -> [kind |-> "return", root |-> <<d>>, err |-> ""]
      [] OTHER ->
           IF ParentDir(d) = d
           THEN [kind |-> "return", root |-> << >>, err |-> "go.mod not found"]
           ELSE [kind |-> "continue", root |-> <<ParentDir(d)>>, err |-> ""]

\* One turn of the loop of FindModuleRoot at directory d: it returns, or it
\* continues at the parent.
statGoMod(fs, d) ==
    CASE fs[d] = "error" -> [kind |-> "return", root |-> << >>, err |-> "failed to stat"]
      [] fs[d] = "file" -> [kind |-> "return", root |-> <<d>>, err |-> ""]
      [] OTHER ->
           IF ParentDir(d) = d
           THEN [kind |-> "return", root |-> << >>, err |-> "go.mod not found"]
           ELSE [kind |-> "continue", root |-> <<ParentDir(d)>>, err |-> ""]

StatResults == {"none", "file", "dir", "error"}

InitFind ==
    /\ GenerateIdle
    /\ ParsersIdle
    /\ LoadIdle
    /\ cwd \in Dirs
    /\ goMod \in [Dirs -> StatResults]
    /\ dir = 0
    /\ moduleRoot = [pc |-> "Getwd", root |-> << >>, err |-> ""]

\* dir, err := os.Getwd()
Getwd ==
    /\ moduleRoot.pc = "Getwd"
    /\ \/ /\ moduleRoot' = [pc |-> "returned", root |-> << >>,
                             err |-> "failed to get current working directory"]
          /\ UNCHANGED dir
       \/ /\ dir' = cwd
          /\ moduleRoot' = [moduleRoot EXCEPT !.pc = "Stat"]
    /\ UNCHANGED <<generateVars, parsersVars, loadVars, cwd, goMod>>

\* The body of the for loop.
Stat ==
    /\ moduleRoot.pc = "Stat"
    /\ LET r == statGoMod(goMod, dir)
       IN IF r.kind = "return"
          THEN /\ moduleRoot' = [pc |-> "returned", root |-> r.root, err |-> r.err]
               /\ UNCHANGED dir
          ELSE /\ dir' = r.root[1]
               /\ UNCHANGED moduleRoot
    /\ UNCHANGED <<generateVars, parsersVars, loadVars, cwd, goMod>>

NextFind == Getwd \/ Stat

SpecFind == InitFind /\ [][NextFind]_vars

\* No go.mod file and no stat failure in the directories below k down to
\* the working directory.
NothingBelow(k) == \A j \in (k + 1)..cwd : goMod[j] \in {"none", "dir"}

\* C18: FindModuleRoot looks only at the working directory and the
\* directories above it; once the working directory is known it returns the
\* nearest of them that holds a go.mod which is not a directory, unless a
\* stat failure other than not-exist comes first, which it returns as
\* "failed to stat"; with neither up to the filesystem root it returns
\* "go.mod not found".
C18_FindModuleRoot ==
    /\ moduleRoot.pc = "Stat" => (dir \in 0..cwd /\ NothingBelow(dir))
    /\ (moduleRoot.pc = "returned"
          /\ moduleRoot.err # "failed to get current working directory") =>
          /\ \A k \in 0..cwd :
                (goMod[k] = "file" /\ NothingBelow(k)) =>
                    (moduleRoot.root = <<k>> /\ moduleRoot.err = "")
          /\ \A k \in 0..cwd :
                (goMod[k] = "error" /\ NothingBelow(k)) =>
                    (moduleRoot.root = << >> /\ moduleRoot.err = "failed to stat")
          /\ NothingBelow(-1) =>
                (moduleRoot.root = << >> /\ moduleRoot.err = "go.mod not found")

C18_Witness ==
    /\ moduleRoot.pc = "returned"
    /\ cwd = 3
    /\ goMod[3] = "dir"
    /\ goMod[2] = "none"
    /\ goMod[1] = "file"
    /\ goMod[0] = "error"
    /\ moduleRoot.root = <<1>>
    /\ moduleRoot.err = ""

(***************************************************************************)
(* Which members the walk visits                                           *)
(***************************************************************************)
\* The visible fields of the struct a node describes.
FieldsOfNode(p) == Range(VisibleFields(Named(p.TypeInfo.Name[1])))

HasNodeAt(path) == path \in Range(NodePaths)

HasNodeAtOrBelow(path) ==
    \E i \in 1..Len(NodePaths) :
       NodePaths[i] = path \/ HasPrefix(NodePaths[i], path \o <<".">>)
                           \/ HasPrefix(NodePaths[i], path \o <<"[*]">>)

\* C19: for an exported, not embedded member of a struct node that has no
\* json tag, the walk emits a node at the path of the struct + "." + the
\* declared name of the member, the name getStructFieldName gives it.
C19_UntaggedMembers ==
    Walked =>
        \A i \in 1..Len(objectDoc.Properties) :
           LET p == objectDoc.Properties[i]
           IN IsStructNode(p) =>
                 \A f \in FieldsOfNode(p) :
                    (f.JSON = "" /\ f.Exported /\ ~f.Anonymous) =>
                        /\ getStructFieldName(f) = <<f.Name>>
                        /\ HasNodeAt(p.Path \o <<".", f.Name>>)

\* C20: for a member of a struct node that is unexported or tagged "-", the
\* list has no node at the path of the struct + "." + its tag name or its
\* declared name, and no node below such a path.
C20_OnlyExportedMembers ==
    Walked =>
        \A i \in 1..Len(objectDoc.Properties) :
           LET p == objectDoc.Properties[i]
           IN IsStructNode(p) =>
                 \A f \in FieldsOfNode(p) :
                    (~f.Exported \/ f.JSON = "-") =>
                        /\ ~HasNodeAtOrBelow(p.Path \o <<".", f.Name>>)
                        /\ f.JSON # "" => ~HasNodeAtOrBelow(p.Path \o <<".", f.JSON>>)

(***************************************************************************)
(* Members without an output name                                          *)
(***************************************************************************)
\* The members of a struct type that have an output name.
NamedMembers(t) ==
    {f \in Range(decls[t.name].fields) : getStructFieldName(f) # EmptyStr}

RECURSIVE OutputReach(_)
\* The keys of the named types reached from a type through members that
\* have an output name, pointers and slices looked through one level.
OutputReach(t) ==
    LET u == Unwrap(t)
    IN IF PkgPath(u) = EmptyStr THEN {}
       ELSE {Key(Doc(Name(u), PkgPath(u)))}
            \cup IF Kind(u) = "struct"
                 THEN UNION {OutputReach(f.Type) : f \in NamedMembers(u)}
                 ELSE {}

RECURSIVE LookupFailsWithinNamed(_)
\* A lookup fails for the type or for the type of a member with an output
\* name, at any depth.
LookupFailsWithinNamed(t) ==
    LET u == Unwrap(t)
    IN /\ PkgPath(u) # EmptyStr
       /\ \/ getTypeDeclarationInfo(u) # ""
          \/ /\ Kind(u) = "struct"
             /\ \/ extractStructType(u) # ""
                \/ \E f \in NamedMembers(u) : LookupFailsWithinNamed(f.Type)

\* C21: a member without an output name (unexported, or tagged "-") is
\* skipped without recursing: the mapping Parse returns holds entries only
\* for types reached through members with an output name, and Parse fails
\* only when a lookup fails for such a type.
C21_SuppressedMembersSkipped ==
    ParseReturned =>
        /\ goDoc.err = "" => DOMAIN goDoc.docs \subseteq OutputReach(typ)
        /\ goDoc.err \notin {"", "no documentation found"} => LookupFailsWithinNamed(typ)

(***************************************************************************)
(* One lookup for each qualified name                                      *)
(***************************************************************************)
\* The type parseStructField is about to hand to parse, unwrapped.
NextMemberType == Unwrap(decls[TopFrame.t.name].fields[TopFrame.i].Type)

\* parse is about to be called for a member whose type has an entry in the
\* mapping of this call already.
AtKnownMember ==
    /\ pc = "parse"
    /\ TopFrame.i <= NumField(TopFrame.t)
    /\ PkgPath(NextMemberType) # EmptyStr
    /\ Key(Doc(Name(NextMemberType), PkgPath(NextMemberType))) \in DOMAIN docs

\* C22: within one Parse call a qualified name that has an entry is not
\* looked up or recursed into again: the step for a member of such a type
\* uses the stored entry, so it enters no member loop and leaves the mapping
\* as it is.
C22_EntriesMemoized ==
    [][AtKnownMember => (Len(parseStack') = Len(parseStack) /\ docs' = docs)]_vars

(***************************************************************************)
(* Types that refer back to themselves                                     *)
(***************************************************************************)
RECURSIVE ParseReaches(_, _, _)
\* parse, called for type t, gets to the struct named target; entered holds
\* the structs entered on the way.
ParseReaches(target, t, entered) ==
    LET u == Unwrap(t)
    IN /\ PkgPath(u) # EmptyStr
       /\ Kind(u) = "struct"
       /\ \/ u.name = target
          \/ /\ u.name \notin entered
             /\ \E f \in Range(decls[u.name].fields) :
                    ParseReaches(target, f.Type, entered \cup {u.name})

\* The struct type refers back to itself, directly or through other structs,
\* by members that parse follows (pointers and slices looked through).
RefersToItself(t) ==
    /\ PkgPath(t) # EmptyStr
    /\ Kind(t) = "struct"
    /\ \E f \in Range(decls[t.name].fields) : ParseReaches(t.name, f.Type, {t.name})

\* The type Parse starts from.
ParseRoot == Unwrap(typ)

\* C23: for a struct type that refers back to itself parse enters the member
\* loop of the type again before the entry of the type is registered: the
\* mapping never holds an entry for the type, Parse never returns, and the
\* frames of the type pile up.
C23_SelfReferenceUnbounded ==
    RefersToItself(ParseRoot) =>
        /\ ~ParseReturned
        /\ Key(Doc(Name(ParseRoot), PkgPath(ParseRoot))) \notin DOMAIN docs
        /\ goDoc = NoGoDoc

\* The recursion of parse has used the stack up with frames of Loop alone.
C23_Witness ==
    /\ typ = Named("Loop")
    /\ pc = "fatal"
    /\ result.err = "parse: stack overflow"
    /\ Len(parseStack) = MaxDepth
    /\ \A i \in 1..Len(parseStack) : parseStack[i].t = Named("Loop")
    /\ docs = NoDocs

(***************************************************************************)
(* The documentation of struct members                                     *)
(***************************************************************************)
\* The structs that have an entry in the mapping Parse returned.
DocumentedStructs ==
    {n \in DOMAIN decls :
        /\ decls[n].kind = "struct"
        /\ Key(Doc(<<n>>, decls[n].pkg)) \in DOMAIN goDoc.docs}

\* Member i is the last member of struct n with its output name.
LastOfItsName(n, i) ==
    \A j \in (i + 1)..Len(decls[n].fields) :
        getStructFieldName(decls[n].fields[j]) # getStructFieldName(decls[n].fields[i])

\* C24: in every entry of a struct, each member with an output name has an
\* entry under that name whose doc is the comment of the member's own
\* declaration field (named, one of several names, or embedded), never the
\* comment of the member's type.
C24_MemberDocsByName ==
    (ParseReturned /\ goDoc.err = "") =>
        \A n \in DocumentedStructs :
            LET entry == goDoc.docs[Key(Doc(<<n>>, decls[n].pkg))]
            IN \A i \in 1..Len(decls[n].fields) :
                  LET f == decls[n].fields[i]
                      name == getStructFieldName(f)
                  IN (name # EmptyStr /\ LastOfItsName(n, i)) =>
                        /\ name \in DOMAIN entry.StructFields
                        /\ entry.StructFields[name].Doc = docCommentToMarkdown(f.Doc)

(***************************************************************************)
(* The order of the text transforms                                        *)
(***************************************************************************)
\* The string has no white space at either end.
Trimmed(s) == TrimSpace(s) = s

\* The nodes of the merged document at the path.
MergedAt(path) == {m \in Range(objectDoc.Properties) : m.Path = path}

\* C25: every node of the returned document went through enum stripping,
\* then deprecation extraction, then trimming: its texts are trimmed, its
\* typeDoc holds no ENUM block, and a deprecation note taken from a type
\* comment was taken after the ENUM block behind it had gone (a member
\* comment keeps its ENUM block, so only nodes without one there are bound).
C25_TransformOrder ==
    Generated =>
        \A node \in Range(result.doc.Properties) :
            /\ Trimmed(node.TypeDoc)
            /\ Trimmed(node.FieldDoc)
            /\ Trimmed(node.DeprecatedDoc)
            /\ ~Contains(node.TypeDoc, ENUM)
            /\ (\A m \in MergedAt(node.Path) : ~Contains(m.FieldDoc, ENUM))
                  => ~Contains(node.DeprecatedDoc, ENUM)
            /\ \E m \in MergedAt(node.Path) : node = FormatAll(GenerateFormatters, m)

\* Mode is documented "Deprecated: v ENUM w": the note comes out as "v".
C25_Witness ==
    /\ Generated
    /\ typ = Named("Mode")
    /\ objectDoc.Properties[1].TypeDoc = <<DEP, SP, "v", SP, ENUM, "w", NL>>
    /\ result.doc.Properties[1].DeprecatedDoc = <<"v">>
    /\ result.doc.Properties[1].TypeDoc = EmptyStr

(***************************************************************************)
(* What extendWithValidationPlan changes                                   *)
(***************************************************************************)
\* The rule facts of the plan at the path.
FactsAt(p, path) == {n \in 1..Len(p.Properties) : p.Properties[n].Path = path}

\* The node carries the rule fact and the children paths given, and nothing
\* else.
CarriesFact(node, fact, childrenPaths) ==
    /\ node.Path = fact.Path
    /\ node.TypeInfo = fact.TypeInfo
    /\ node.Rules = fact.Rules
    /\ node.ChildrenPaths = childrenPaths
    /\ node.TypeDoc = EmptyStr
    /\ node.FieldDoc = EmptyStr
    /\ node.DeprecatedDoc = EmptyStr

\* C26: the step of extendWithValidationPlan sets the name of the document
\* to the plan's, keeps the number, the order, the paths and the children
\* paths of the properties, leaves every node unchanged whose path no rule
\* fact has, and makes the (first) node at the path of a rule fact carry a
\* rule fact of that path; rule facts at other paths add nothing.
C26_ExtendFrame ==
    [][(pc = "Plan" /\ pc' = "mergeDocs") =>
          /\ objectDoc'.Name = plan'.Name
          /\ objectDoc'.Doc = objectDoc.Doc
          /\ Len(objectDoc'.Properties) = Len(objectDoc.Properties)
          /\ \A i \in 1..Len(objectDoc.Properties) :
                LET old == objectDoc.Properties[i]
                    new == objectDoc'.Properties[i]
                IN /\ new.Path = old.Path
                   /\ new.ChildrenPaths = old.ChildrenPaths
                   /\ FactsAt(plan', old.Path) = {} => new = old
                   /\ (FactsAt(plan', old.Path) # {}
                         /\ IndexOfPath(objectDoc.Properties, old.Path) = i)
                        => \E n \in FactsAt(plan', old.Path) :
                              CarriesFact(new, plan'.Properties[n], old.ChildrenPaths)]_vars

\* Outer extended by a plan with a fact at no node's path and a fact at
\* $.secret, a node with a child.
C26_Witness ==
    /\ pc = "mergeDocs"
    /\ typ = Named("Outer")
    /\ objectDoc.Name = PlanName
    /\ Len(plan.Properties) = 2
    /\ plan.Properties[1].Path = Member("nomatch")
    /\ plan.Properties[2].Path = Secret
    /\ \E i \in 1..Len(objectDoc.Properties) :
          /\ objectDoc.Properties[i].Path = Secret
          /\ objectDoc.Properties[i].Rules = <<"rule">>
          /\ objectDoc.Properties[i].ChildrenPaths = <<Secret \o <<".", "key">> >>
    /\ objectDoc.Properties[1].Rules # <<"rule">>

(***************************************************************************)
(* NewParser: packages.Load, checkForPackageErrors, collectAllPackages     *)
(***************************************************************************)
\* The import graphs: a package imports packages later in the build order.
ImportGraphs ==
    {g \in [Pkgs -> SUBSET Pkgs] : \A p \in Pkgs : \A q \in g[p] : q > p}

\* The packages the pattern root/... matches.
RootLists == {<<1>>, <<2, 1>>}

RECURSIVE Sorted(_)
\* sort.Strings of a set of package paths.
Sorted(S) ==
    IF S = {} THEN << >>
    ELSE LET least == CHOOSE x \in S : \A y \in S : x <= y
         IN <<least>> \o Sorted(S \ {least})

\* The callback checkForPackageErrors gives to packages.Visit: the errors
\* of the package, wrapped, then the error of its module.
visitPackage(collected, p) ==
    LET pkg == loaded.pkg[p]
    IN collected
       \o [i \in 1..Len(pkg.Errors) |-> <<"package", p, pkg.Errors[i]>>]
       \o (IF pkg.Module = "error" THEN << <<"module", p>> >> ELSE << >>)

\* A check that reports the first error alone.
firstErrorOf(collected) ==
    IF Len(collected) = 0 THEN NilError
    ELSE [kind |-> "single", count |-> 1, causes |-> <<collected[1]>>]

\* checkForPackageErrors after the visit: nil, the one error, or one error
\* that gives the count and lists every error.
errorOf(collected) ==
    IF Len(collected) = 0 THEN NilError
    ELSE IF Len(collected) = 1 THEN [kind |-> "single", count |-> 1, causes |-> collected]
    ELSE [kind |-> "many", count |-> Len(collected), causes |-> collected]

RECURSIVE collectAllPackages(_, _)
\* collectAllPackages: p.pkgs after the packages of the list and their
\* imports have been added to pkgs.
collectAllPackages(pkgs, list) ==
    IF list = << >> THEN pkgs
    ELSE IF Head(list) \in pkgs THEN collectAllPackages(pkgs, Tail(list))
    ELSE collectAllPackages(
             collectAllPackages(pkgs \cup {Head(list)}, Sorted(loaded.imports[Head(list)])),
             Tail(list))

InitLoad ==
    /\ GenerateIdle
    /\ ParsersIdle
    /\ FindIdle
    /\ loaded \in [roots : RootLists, imports : ImportGraphs, pkg : [Pkgs -> PkgStates]]
    /\ toVisit = << >>
    /\ seen = {}
    /\ errs = << >>
    /\ newParser = [pc |-> "FindModuleRoot", parser |-> NilParser, err |-> NilError]

\* root, err := pathutils.FindModuleRoot() and packages.Load(conf, root+"/...")
Load ==
    /\ newParser.pc = "FindModuleRoot"
    /\ \/ /\ newParser' = [pc |-> "returned", parser |-> NilParser,
                            err |-> [kind |-> "failed to find module root",
                                     count |-> 1, causes |-> << >>]]
          /\ UNCHANGED toVisit
       \/ /\ newParser' = [pc |-> "returned", parser |-> NilParser,
                            err |-> [kind |-> "failed to load packages",
                                     count |-> 1, causes |-> << >>]]
          /\ UNCHANGED toVisit
       \/ /\ newParser' = [newParser EXCEPT !.pc = "checkForPackageErrors"]
          /\ toVisit' = loaded.roots
    /\ UNCHANGED <<generateVars, parsersVars, findVars, loaded, seen, errs>>

\* packages.Visit: the next package, once; the callback returns true, so its
\* imports are visited next, in the order of their paths.
Visit ==
    /\ newParser.pc = "checkForPackageErrors"
    /\ toVisit # << >>
    /\ LET p == Head(toVisit)
       IN IF p \in seen
          THEN /\ toVisit' = Tail(toVisit)
               /\ UNCHANGED <<seen, errs>>
          ELSE /\ seen' = seen \cup {p}
               /\ errs' = visitPackage(errs, p)
               /\ toVisit' = Sorted(loaded.imports[p]) \o Tail(toVisit)
    /\ UNCHANGED <<generateVars, parsersVars, findVars, loaded, newParser>>

\* checkForPackageErrors returns, and NewParser with it: the error, or a
\* parser that indexes every package.
NewParserReturns ==
    /\ newParser.pc = "checkForPackageErrors"
    /\ toVisit = << >>
    /\ newParser' =
          IF errorOf(errs) # NilError
          THEN [pc |-> "returned", parser |-> NilParser, err |-> errorOf(errs)]
          ELSE [pc |-> "returned",
                parser |-> [nil |-> FALSE,
                            pkgs |-> collectAllPackages({}, loaded.roots)],
                err |-> NilError]
    /\ UNCHANGED <<generateVars, parsersVars, findVars, loaded, toVisit, seen, errs>>

NextLoad ==
    \/ Load
    \/ Visit
    \/ NewParserReturns

SpecLoad == InitLoad /\ [][NextLoad]_vars

\* The packages reached from the root packages by imports.
Reached ==
    LET step(S) == S \cup UNION {loaded.imports[p] : p \in S}
        roots == Range(loaded.roots)
    IN step(step(step(step(roots))))

\* The errors the reached packages carry.
CausesOf(p) ==
    {<<"package", p, loaded.pkg[p].Errors[i]>> : i \in 1..Len(loaded.pkg[p].Errors)}
    \cup (IF loaded.pkg[p].Module = "error" THEN {<<"module", p>>} ELSE {})

AllCauses == UNION {CausesOf(p) : p \in Reached}

\* checkForPackageErrors has run and NewParser has returned.
Checked ==
    /\ newParser.pc = "returned"
    /\ newParser.err.kind \in {"nil", "single", "many"}

\* C27: checkForPackageErrors visits every package reached from the loaded
\* ones and collects every package error and module error, each once for
\* its package; the error is nil exactly when there is none, and otherwise
\* one error that names every collected cause; NewParser returns a parser
\* exactly when the error is nil.
C27_PackageErrors ==
    Checked =>
        /\ seen = Reached
        /\ Range(errs) = AllCauses
        /\ Len(errs) = Cardinality(AllCauses)
        /\ (newParser.err = NilError) <=> (AllCauses = {})
        /\ Range(newParser.err.causes) = AllCauses
        /\ newParser.err.count = Cardinality(AllCauses)
        /\ newParser.parser.nil <=> (newParser.err # NilError)
        /\ ~newParser.parser.nil => newParser.parser.pkgs = Reached

\* NewParser failed with one error for three causes in two packages, one of
\* them a dependency with a module error.
C27_Witness ==
    /\ Checked
    /\ loaded.roots = <<1>>
    /\ loaded.imports[1] = {3}
    /\ newParser.err.kind = "many"
    /\ newParser.err.causes = << <<"package", 1, "e1">>, <<"package", 3, "e1">>,
                                  <<"package", 3, "e2">>, <<"module", 3>> >>
    /\ newParser.parser = NilParser
    /\ 2 \notin seen

(***************************************************************************)
(* Children paths                                                          *)
(***************************************************************************)
\* C28: in the document Generate returns every path among the children
\* paths of a node is the path of a node of the document.
C28_NoDanglingChildren ==
    Generated =>
        \A node \in Range(result.doc.Properties) :
            \A child \in Range(node.ChildrenPaths) : child \in Range(ResultPaths)

\* The nodes of the walk that list the path among their children paths.
ListedBy(path) ==
    {j \in 1..Len(objectDoc.Properties) :
        path \in Range(objectDoc.Properties[j].ChildrenPaths)}

\* C29: in the document generateObjectDoc returns the path of every node
\* other than "$" is among the children paths of exactly one node, the node
\* at the path of its structural parent; element nodes ("[*]") and map key
\* and value nodes included.
C29_ListedByParent ==
    Walked =>
        \A i \in 1..Len(objectDoc.Properties) :
            LET path == objectDoc.Properties[i].Path
            IN path # Root =>
                  /\ Cardinality(ListedBy(path)) = 1
                  /\ \A j \in ListedBy(path) :
                        objectDoc.Properties[j].Path = ParentPath(path)

(***************************************************************************)
(* Rule facts and documentation                                            *)
(***************************************************************************)
RECURSIVE WalkFrom(_)
\* The nodes objectMapper.Map appends for the pending calls, in order.
WalkFrom(pending) ==
    IF pending = << >> THEN << >>
    ELSE LET c == Head(pending)
         IN <<MapNode(c.typ, c.path)>>
            \o WalkFrom(MapRecursion(c.typ, c.path, c.depth) \o Tail(pending))

\* The document generateObjectDoc returns, as a sequence written out.
WalkedDoc ==
    [EmptyObjectDoc EXCEPT
       !.Properties = withChildrenPaths(WalkFrom(<<Call(Deref(typ), Root, 1)>>)) \o << >>]

\* The document Generate would return for a plan without rule facts.
WithoutFacts ==
    postProcessProperties(mergeDocs(WalkedDoc, goDoc.docs), filterPaths, GenerateFormatters)

\* The node's path is the path of a rule fact of the plan.
HasFact(node) == \E n \in 1..Len(plan.Properties) : plan.Properties[n].Path = node.Path

\* C30: the nodes of the returned document carry the typeDoc, fieldDoc and
\* deprecatedDoc they carry when the plan has no rule facts, the nodes
\* replaced by rule-fact nodes included.
C30_FactsKeepDocumentation ==
    Generated =>
        /\ Len(result.doc.Properties) = Len(WithoutFacts.Properties)
        /\ \A i \in 1..Len(result.doc.Properties) :
              LET node == result.doc.Properties[i]
                  plain == WithoutFacts.Properties[i]
              IN /\ node.Path = plain.Path
                 /\ node.TypeDoc = plain.TypeDoc
                 /\ node.FieldDoc = plain.FieldDoc
                 /\ node.DeprecatedDoc = plain.DeprecatedDoc

\* AB returned with rule facts at "$" and "$.a": both nodes carry the rules
\* and their documentation.
C30_Witness ==
    /\ Generated
    /\ typ = Named("AB")
    /\ filterPaths = {}
    /\ Paths(plan.Properties) = <<Root, Member("a")>>
    /\ result.doc.Properties[1].Rules = <<"rule">>
    /\ result.doc.Properties[1].TypeDoc = <<"w">>
    /\ result.doc.Properties[2].Rules = <<"rule">>
    /\ result.doc.Properties[2].FieldDoc = <<"w">>
    /\ HasFact(result.doc.Properties[2])
====
